---- MODULE Spec2Model ----
(***************************************************************************)
(* ContextPack-Pro: the segment compositor (composeSegments), the          *)
(* relevance tracker (trackDocument, getTrackedSelections, manual pins)    *)
(* of src/unnamed/part_002, as state machines.                             *)
(*                                                                         *)
(* Texts and paths are sequences of one-character strings, so slicing,     *)
(* prefix tests and startsWith are computed as the code computes them.     *)
(* A finite number is kept as a count of halves, so that Math.floor acts.  *)
(***************************************************************************)
EXTENDS Integers, Sequences, FiniteSets, TLC

VARIABLES
  \* ---- composeSegments: its arguments and locals (part_002 852-947)
  segments, maxChars, pc, effectiveLimit, index, currentLength, textParts,
  truncated, optionalLimitReached, breakIndex, includedFiles, truncatedFiles,
  \* ---- the extension host and the module-level state (part_002 52-70)
  pathSep,             \* path.sep of the platform: "/" or "\\"
  activeTextEditor,    \* vscode.window.activeTextEditor?.document
  workspaceState,      \* extensionContext.workspaceState, per root key
  workspaceTrackers,   \* const workspaceTrackers = new Map()
  suppressTracking,    \* let suppressTracking = false
  trackedSelections,   \* buildContextMarkdown: const trackedSelections (219)
  \* ---- history variable of the model: per root, the relative paths of the
  \* document events trackDocument accepted, in event order
  accepted,
  \* ---- toggleManualTracking: the invocations under way (part_002 145-203)
  toggleCalls,         \* per invocation: its resource, position and locals
  toggleStart,         \* the workspace state before the invocations began
  \* ---- buildContextMarkdown and collectRelevantFiles (part_002 205-481)
  config,              \* getConfiguration('copyContext') and the ignore rules
  visibleTextEditors,  \* vscode.window.visibleTextEditors, as documents
  collection,          \* collectRelevantFiles: its position and locals
  activations,         \* history variable: the user's activations during a build
  \* ---- buildTree (part_002 694-777)
  treeEntries,         \* the TreeEntry list handed to buildTree
  tree,                \* the nodes of the tree and the rendered lines
  \* ---- the copyContext.copy commands in flight (part_002 75-108)
  copies               \* per command: its build's position and locals

composeVars == << segments, maxChars, pc, effectiveLimit, index, currentLength,
                  textParts, truncated, optionalLimitReached, breakIndex,
                  includedFiles, truncatedFiles >>

hostVars == << pathSep, activeTextEditor, workspaceState, workspaceTrackers,
               suppressTracking, trackedSelections, accepted >>

auxVars == << toggleCalls, toggleStart, config, visibleTextEditors, collection,
              activations, treeEntries, tree, copies >>

vars == << composeVars, hostVars, auxVars >>

\* ------------------------------------------------------------------ bounds
MaxSegments == 3
MaxLimit == 3
\* document events accepted for the first root / for the other root
MaxEvents == 11
MaxOtherEvents == 1
\* length of the histories drawn for getTrackedSelections
MaxHistory == 4

\* ----------------------------------------------------------------- helpers
Min(a, b) == IF a <= b THEN a ELSE b

RECURSIVE Join(_)
\* Array.prototype.join('') of a list of texts
Join(parts) == IF parts = << >> THEN << >> ELSE Head(parts) \o Join(Tail(parts))

\* String.prototype.slice(0, n) for 0 <= n
Slice(text, n) == SubSeq(text, 1, Min(n, Len(text)))

Range(seq) == { seq[i] : i \in 1..Len(seq) }

IsPrefix(p, t) == Len(p) <= Len(t) /\ SubSeq(t, 1, Len(p)) = p

\* ------------------------------------------------- composeSegments: inputs
\* OutputSegment.label is optional: undefined and '' are both falsy
NoLabel == ""
Labels == {"f1", "f2"}
Texts == { << >>, <<"a">>, <<"b", "c">> }

\* a required segment's label is never read by the code: one labelled variant
\* is enough to see that it is not reported
OutputSegment ==
  [text : Texts, required : {TRUE}, label : {NoLabel, "f1"}]
    \cup [text : Texts, required : {FALSE}, label : Labels \cup {NoLabel}]

SegmentLists == UNION { [1..n -> OutputSegment] : n \in 0..MaxSegments }

\* maxChars: number | undefined.  A finite number is halves/2.
Number(h) == [kind |-> "number", halves |-> h]
MaxCharsChoices ==
  { [kind |-> k, halves |-> 0] : k \in {"undefined", "NaN", "Infinity"} }
    \cup { Number(h) : h \in (-2)..(2 * MaxLimit) }

IsFinite(v) == v.kind = "number"
\* Math.floor of halves/2 (\div rounds towards minus infinity)
Floor(v) == v.halves \div 2

\* effectiveLimit is a positive integer or undefined; undefined is written 0,
\* a value the positive range never takes (part_002 862)
NoLimit == 0

\* lines 861-862
NormalizeLimit(v) ==
  IF IsFinite(v) /\ Floor(v) > 0 THEN Floor(v) ELSE NoLimit

RECURSIVE OptionalLabels(_)
\* labels pushed by `if (!segment.required && segment.label)` over a list
OptionalLabels(segs) ==
  IF segs = << >> THEN << >>
  ELSE LET s == Head(segs) IN
       (IF ~s.required /\ s.label # NoLabel THEN << s.label >> ELSE << >>)
         \o OptionalLabels(Tail(segs))

RECURSIVE AllTexts(_)
AllTexts(segs) ==
  IF segs = << >> THEN << >> ELSE << Head(segs).text >> \o AllTexts(Tail(segs))

\* the text the function returns so far: textParts.join('')
Text == Join(textParts)
\* the segment the loop is looking at (index is 0-based as in the code)
Segment == segments[index + 1]

\* ------------------------------------------------ composeSegments: actions
\* the extension host at rest: no editor, nothing stored, no tracker yet
\* lines 210-217: the defaults of the copyContext settings (maxFiles 5, in
\* halves), with no ignore rules
DefaultTreeDepth == 3
DefaultConfig ==
  [sources |-> "openEditors", maxFiles |-> [kind |-> "number", halves |-> 10],
   ignores |-> {}, structureMode |-> "smart", treeDepth |-> DefaultTreeDepth]

\* no toggle, snapshot build or tree construction is under way
AuxIdle ==
  /\ toggleCalls = << >>
  /\ toggleStart = << >>
  /\ config = DefaultConfig
  /\ visibleTextEditors = << >>
  /\ collection = [pc |-> "idle"]
  /\ activations = << >>
  /\ treeEntries = << >>
  /\ tree = [pc |-> "idle"]
  /\ copies = << >>

HostIdle ==
  /\ pathSep = "/"
  /\ activeTextEditor = [scheme |-> "none", fsPath |-> << >>]
  /\ workspaceState =
       [r \in {"r1", "r2"} |-> [present |-> FALSE, files |-> << >>, directories |-> << >>]]
  /\ workspaceTrackers =
       [r \in {"r1", "r2"} |->
          [exists |-> FALSE, history |-> << >>, manualFiles |-> << >>,
           manualDirectories |-> << >>]]
  /\ suppressTracking = FALSE
  /\ trackedSelections = [called |-> FALSE, files |-> << >>, treeHighlights |-> << >>]
  /\ accepted = [r \in {"r1", "r2"} |-> << >>]

InitCompose ==
  /\ HostIdle
  /\ AuxIdle
  /\ segments \in SegmentLists
  /\ maxChars \in MaxCharsChoices
  /\ pc = "entry"
  /\ effectiveLimit = NoLimit
  /\ index = 0
  /\ currentLength = 0
  /\ textParts = << >>
  /\ truncated = FALSE
  /\ optionalLimitReached = FALSE
  /\ breakIndex = 0
  /\ includedFiles = << >>
  /\ truncatedFiles = << >>

\* lines 861-881: no effective limit, everything is concatenated
ComposeUnlimited ==
  /\ pc = "entry"
  /\ UNCHANGED << hostVars, auxVars >>
  /\ NormalizeLimit(maxChars) = NoLimit
  /\ effectiveLimit' = NoLimit
  /\ textParts' = AllTexts(segments)
  /\ includedFiles' = OptionalLabels(segments)
  /\ truncated' = FALSE
  /\ truncatedFiles' = << >>
  /\ pc' = "done"
  /\ UNCHANGED << segments, maxChars, index, currentLength,
                  optionalLimitReached, breakIndex >>

\* lines 861-886: the walk starts
ComposeBegin ==
  /\ pc = "entry"
  /\ UNCHANGED << hostVars, auxVars >>
  /\ NormalizeLimit(maxChars) # NoLimit
  /\ effectiveLimit' = NormalizeLimit(maxChars)
  /\ currentLength' = 0
  /\ truncated' = FALSE
  /\ optionalLimitReached' = FALSE
  /\ breakIndex' = Len(segments)
  /\ index' = 0
  /\ pc' = "loop"
  /\ UNCHANGED << segments, maxChars, textParts, includedFiles, truncatedFiles >>

\* lines 892-895, 906: a required segment that fits
RequiredFits ==
  /\ pc = "loop" /\ index < Len(segments)
  /\ UNCHANGED << hostVars, auxVars >>
  /\ Segment.required
  /\ currentLength + Len(Segment.text) <= effectiveLimit
  /\ textParts' = Append(textParts, Segment.text)
  /\ currentLength' = currentLength + Len(Segment.text)
  /\ index' = index + 1
  /\ UNCHANGED << segments, maxChars, pc, effectiveLimit, truncated,
                  optionalLimitReached, breakIndex, includedFiles, truncatedFiles >>

\* mutant: the overflowing required segment is pushed whole
RequiredOverflowUnsliced ==
  /\ pc = "loop" /\ index < Len(segments)
  /\ UNCHANGED << hostVars, auxVars >>
  /\ Segment.required
  /\ ~(currentLength + Len(Segment.text) <= effectiveLimit)
  /\ textParts' = Append(textParts, Segment.text)
  /\ currentLength' = currentLength + Len(Segment.text)
  /\ truncated' = TRUE
  /\ breakIndex' = index
  /\ pc' = "after"
  /\ UNCHANGED << segments, maxChars, effectiveLimit, index,
                  optionalLimitReached, includedFiles, truncatedFiles >>

\* mutant: the overflowing required segment is dropped instead of sliced
RequiredOverflowDropped ==
  /\ pc = "loop" /\ index < Len(segments)
  /\ UNCHANGED << hostVars, auxVars >>
  /\ Segment.required
  /\ ~(currentLength + Len(Segment.text) <= effectiveLimit)
  /\ truncated' = TRUE
  /\ breakIndex' = index
  /\ pc' = "after"
  /\ UNCHANGED << segments, maxChars, effectiveLimit, index, textParts,
                  currentLength, optionalLimitReached, includedFiles,
                  truncatedFiles >>

\* mutant: the overflow of a required segment is not flagged
RequiredOverflowUnflagged ==
  /\ pc = "loop" /\ index < Len(segments)
  /\ UNCHANGED << hostVars, auxVars >>
  /\ Segment.required
  /\ ~(currentLength + Len(Segment.text) <= effectiveLimit)
  /\ LET remaining == effectiveLimit - currentLength IN
       IF remaining > 0
       THEN /\ textParts' = Append(textParts, Slice(Segment.text, remaining))
            /\ currentLength' = currentLength + remaining
       ELSE UNCHANGED << textParts, currentLength >>
  /\ breakIndex' = index
  /\ pc' = "after"
  /\ UNCHANGED << segments, maxChars, effectiveLimit, index, truncated,
                  optionalLimitReached, includedFiles, truncatedFiles >>

\* lines 896-905: a required segment that does not fit is sliced; break
RequiredOverflow ==
  /\ pc = "loop" /\ index < Len(segments)
  /\ UNCHANGED << hostVars, auxVars >>
  /\ Segment.required
  /\ ~(currentLength + Len(Segment.text) <= effectiveLimit)
  /\ LET remaining == effectiveLimit - currentLength IN
       IF remaining > 0
       THEN /\ textParts' = Append(textParts, Slice(Segment.text, remaining))
            /\ currentLength' = currentLength + remaining
       ELSE UNCHANGED << textParts, currentLength >>
  /\ truncated' = TRUE
  /\ breakIndex' = index
  /\ pc' = "after"
  /\ UNCHANGED << segments, maxChars, effectiveLimit, index,
                  optionalLimitReached, includedFiles, truncatedFiles >>

\* mutant: after the limit was reached a short optional segment is backfilled
OptionalAfterLimitBackfill ==
  /\ pc = "loop" /\ index < Len(segments)
  /\ UNCHANGED << hostVars, auxVars >>
  /\ ~Segment.required
  /\ optionalLimitReached
  /\ IF currentLength + Len(Segment.text) <= effectiveLimit
     THEN /\ textParts' = Append(textParts, Segment.text)
          /\ currentLength' = currentLength + Len(Segment.text)
          /\ includedFiles' = IF Segment.label # NoLabel
                              THEN Append(includedFiles, Segment.label)
                              ELSE includedFiles
          /\ UNCHANGED truncatedFiles
     ELSE /\ truncatedFiles' = IF Segment.label # NoLabel
                               THEN Append(truncatedFiles, Segment.label)
                               ELSE truncatedFiles
          /\ UNCHANGED << textParts, currentLength, includedFiles >>
  /\ truncated' = TRUE
  /\ index' = index + 1
  /\ UNCHANGED << segments, maxChars, pc, effectiveLimit,
                  optionalLimitReached, breakIndex >>

\* lines 909-915: an optional segment after the limit was reached
OptionalAfterLimit ==
  /\ pc = "loop" /\ index < Len(segments)
  /\ UNCHANGED << hostVars, auxVars >>
  /\ ~Segment.required
  /\ optionalLimitReached
  /\ truncatedFiles' = IF Segment.label # NoLabel
                       THEN Append(truncatedFiles, Segment.label)
                       ELSE truncatedFiles
  /\ truncated' = TRUE
  /\ index' = index + 1
  /\ UNCHANGED << segments, maxChars, pc, effectiveLimit, currentLength,
                  textParts, optionalLimitReached, breakIndex, includedFiles >>

\* lines 917-922: an optional segment that fits
OptionalFits ==
  /\ pc = "loop" /\ index < Len(segments)
  /\ UNCHANGED << hostVars, auxVars >>
  /\ ~Segment.required
  /\ ~optionalLimitReached
  /\ currentLength + Len(Segment.text) <= effectiveLimit
  /\ textParts' = Append(textParts, Segment.text)
  /\ currentLength' = currentLength + Len(Segment.text)
  /\ includedFiles' = IF Segment.label # NoLabel
                      THEN Append(includedFiles, Segment.label)
                      ELSE includedFiles
  /\ index' = index + 1
  /\ UNCHANGED << segments, maxChars, pc, effectiveLimit, truncated,
                  optionalLimitReached, breakIndex, truncatedFiles >>

\* mutant: the dropped optional segment's label is not recorded
OptionalOverflowUnrecorded ==
  /\ pc = "loop" /\ index < Len(segments)
  /\ UNCHANGED << hostVars, auxVars >>
  /\ ~Segment.required
  /\ ~optionalLimitReached
  /\ ~(currentLength + Len(Segment.text) <= effectiveLimit)
  /\ optionalLimitReached' = TRUE
  /\ truncated' = TRUE
  /\ index' = index + 1
  /\ UNCHANGED << segments, maxChars, pc, effectiveLimit, currentLength,
                  textParts, breakIndex, includedFiles, truncatedFiles >>

\* mutant: the optional segment that does not fit is sliced like a required one
OptionalOverflowSliced ==
  /\ pc = "loop" /\ index < Len(segments)
  /\ UNCHANGED << hostVars, auxVars >>
  /\ ~Segment.required
  /\ ~optionalLimitReached
  /\ ~(currentLength + Len(Segment.text) <= effectiveLimit)
  /\ textParts' = Append(textParts, Slice(Segment.text, effectiveLimit - currentLength))
  /\ currentLength' = effectiveLimit
  /\ optionalLimitReached' = TRUE
  /\ truncatedFiles' = IF Segment.label # NoLabel
                       THEN Append(truncatedFiles, Segment.label)
                       ELSE truncatedFiles
  /\ truncated' = TRUE
  /\ index' = index + 1
  /\ UNCHANGED << segments, maxChars, pc, effectiveLimit, breakIndex,
                  includedFiles >>

\* lines 923-929: the first optional segment that does not fit
OptionalOverflow ==
  /\ pc = "loop" /\ index < Len(segments)
  /\ UNCHANGED << hostVars, auxVars >>
  /\ ~Segment.required
  /\ ~optionalLimitReached
  /\ ~(currentLength + Len(Segment.text) <= effectiveLimit)
  /\ optionalLimitReached' = TRUE
  /\ truncatedFiles' = IF Segment.label # NoLabel
                       THEN Append(truncatedFiles, Segment.label)
                       ELSE truncatedFiles
  /\ truncated' = TRUE
  /\ index' = index + 1
  /\ UNCHANGED << segments, maxChars, pc, effectiveLimit, currentLength,
                  textParts, breakIndex, includedFiles >>

\* line 888: the loop condition fails
LoopEnd ==
  /\ pc = "loop" /\ ~(index < Len(segments))
  /\ UNCHANGED << hostVars, auxVars >>
  /\ pc' = "after"
  /\ UNCHANGED << segments, maxChars, effectiveLimit, index, currentLength,
                  textParts, truncated, optionalLimitReached, breakIndex,
                  includedFiles, truncatedFiles >>

\* mutant: the labels after the break are not reported
ComposeReturnNoLabels ==
  /\ pc = "after"
  /\ UNCHANGED << hostVars, auxVars >>
  /\ pc' = "done"
  /\ UNCHANGED << segments, maxChars, effectiveLimit, index, currentLength,
                  textParts, truncated, optionalLimitReached, breakIndex,
                  includedFiles, truncatedFiles >>

\* lines 932-946: labels after a break are reported as truncated; return
ComposeReturn ==
  /\ pc = "after"
  /\ UNCHANGED << hostVars, auxVars >>
  /\ truncatedFiles' =
       IF truncated /\ breakIndex < Len(segments) - 1
       THEN truncatedFiles
              \o OptionalLabels(SubSeq(segments, breakIndex + 2, Len(segments)))
       ELSE truncatedFiles
  /\ pc' = "done"
  /\ UNCHANGED << segments, maxChars, effectiveLimit, index, currentLength,
                  textParts, truncated, optionalLimitReached, breakIndex,
                  includedFiles >>

composeSegments ==
  \/ ComposeUnlimited
  \/ ComposeBegin
  \/ RequiredFits
  \/ RequiredOverflow
  \/ OptionalAfterLimit
  \/ OptionalFits
  \/ OptionalOverflow
  \/ LoopEnd
  \/ ComposeReturn

SpecCompose == InitCompose /\ [][composeSegments]_vars

\* ------------------------------------------------------------------ paths
\* A path is a sequence of one-character strings; an absolute path is the
\* list of its segments.
DotDot == << ".", "." >>

\* String.prototype.startsWith
StartsWith(value, prefix) ==
  Len(value) >= Len(prefix) /\ SubSeq(value, 1, Len(prefix)) = prefix

\* lines 779-781: value.replace(/\\/g, '/')
toPosix(value) ==
  [i \in 1..Len(value) |-> IF value[i] = "\\" THEN "/" ELSE value[i]]

RECURSIVE JoinPath(_, _)
\* segments joined by the platform separator
JoinPath(parts, sep) ==
  IF parts = << >> THEN << >>
  ELSE IF Len(parts) = 1 THEN parts[1]
  ELSE parts[1] \o << sep >> \o JoinPath(Tail(parts), sep)

RECURSIVE CommonLength(_, _)
CommonLength(a, b) ==
  IF a = << >> \/ b = << >> THEN 0
  ELSE IF Head(a) # Head(b) THEN 0
  ELSE 1 + CommonLength(Tail(a), Tail(b))

\* path.relative(from, to) of two absolute paths: one '..' for every segment
\* of `from` below the common ancestor, then the rest of `to`
PathRelative(from, to, sep) ==
  LET c == CommonLength(from, to) IN
    JoinPath([i \in 1..(Len(from) - c) |-> DotDot] \o SubSeq(to, c + 1, Len(to)), sep)

\* -------------------------------------------------- workspace and documents
Roots == {"r1", "r2"}
\* vscode.workspace.workspaceFolders[0]
FirstRoot == "r1"
NoFolder == "none"
\* workspaceFolder.uri.fsPath
RootPath(root) == IF root = "r1" THEN << <<"A">> >> ELSE << <<"B">> >>

\* vscode.workspace.getWorkspaceFolder(uri): the folder that contains it
GetWorkspaceFolder(fsPath) ==
  IF \E r \in Roots : IsPrefix(RootPath(r), fsPath)
  THEN CHOOSE r \in Roots : IsPrefix(RootPath(r), fsPath)
  ELSE NoFolder

\* a vscode.TextDocument: document.uri.scheme and document.uri.fsPath
FileDocument(fsPath) == [scheme |-> "file", fsPath |-> fsPath]
\* `undefined` where a document is expected
NoDocument == [scheme |-> "none", fsPath |-> << >>]
DocUntitled == [scheme |-> "untitled", fsPath |-> << <<"u">> >>]
DocX == FileDocument(<< <<"A">>, <<"x">> >>)
DocY == FileDocument(<< <<"A">>, <<"y">> >>)
DocZ == FileDocument(<< <<"A">>, <<"z">> >>)
DocW == FileDocument(<< <<"A">>, <<"w">> >>)
\* a file in a directory of the first root
DocNested == FileDocument(<< <<"A">>, <<"d">>, <<"p">> >>)
\* a file of the first root whose name begins with two dots
DocDots == FileDocument(<< <<"A">>, <<".", ".", "e">> >>)
\* a file of the other root, and one outside every workspace folder
DocOther == FileDocument(<< <<"B">>, <<"q">> >>)
DocOutside == FileDocument(<< <<"o">> >>)

\* ------------------------------------------------ insertion-ordered Set, Map
RECURSIVE Unique(_)
\* Array.from(new Set(list)): the first occurrences, in order
Unique(list) ==
  IF list = << >> THEN << >>
  ELSE LET rest == Unique(SubSeq(list, 1, Len(list) - 1))
           last == list[Len(list)]
       IN IF last \in Range(rest) THEN rest ELSE Append(rest, last)

\* Map.prototype.has / set on a list of [dir, files] in insertion order
MapHas(map, key) == \E i \in 1..Len(map) : map[i].dir = key
MapSet(map, key, value) ==
  IF MapHas(map, key)
  THEN [i \in 1..Len(map) |->
          IF map[i].dir = key THEN [dir |-> key, files |-> value] ELSE map[i]]
  ELSE Append(map, [dir |-> key, files |-> value])

\* ------------------------------------------------------- tracking state
\* lines 55-59; `exists` is workspaceTrackers.has(key)
NoTracker ==
  [exists |-> FALSE, history |-> << >>, manualFiles |-> << >>,
   manualDirectories |-> << >>]
\* lines 61-64; `present` is whether the key holds a value
NoStored == [present |-> FALSE, files |-> << >>, directories |-> << >>]

\* history.length > 10 (line 500)
HistoryLimit == 10

NonEmptyEntry(entry) == entry # << >>
\* lines 626, 636-638: toPosix, drop empty entries, new Set
NormalizeEntries(entries) ==
  Unique(SelectSeq([i \in 1..Len(entries) |-> toPosix(entries[i])], NonEmptyEntry))

RECURSIVE LoadDirectories(_, _)
\* lines 629-642
LoadDirectories(stored, directories) ==
  IF stored = << >> THEN directories
  ELSE LET normalizedDir == toPosix(Head(stored).dir) IN
       IF normalizedDir = << >>
       THEN LoadDirectories(Tail(stored), directories)
       ELSE LoadDirectories(Tail(stored),
              MapSet(directories, normalizedDir, NormalizeEntries(Head(stored).files)))

\* lines 613-645
loadManualTracking(stored) ==
  IF ~stored.present
  THEN [files |-> << >>, directories |-> << >>]
  ELSE [files |-> NormalizeEntries(stored.files),
        directories |-> LoadDirectories(stored.directories, << >>)]

\* lines 593-607: the tracker of a root is created on first use
getWorkspaceTracker(trackers, state, root) ==
  IF trackers[root].exists THEN trackers
  ELSE LET manual == loadManualTracking(state[root]) IN
       [trackers EXCEPT ![root] =
          [exists |-> TRUE,
           history |-> << >>,
           manualFiles |-> Unique(manual.files),
           manualDirectories |->
             [i \in 1..Len(manual.directories) |->
                [dir |-> manual.directories[i].dir,
                 files |-> Unique(manual.directories[i].files)]]]]

\* mutant: the newest entry is evicted instead of the oldest
trackDocumentEvictNewest(trackers, state, suppress, document, sep) ==
  IF suppress \/ document.scheme # "file" THEN trackers
  ELSE LET workspaceFolder == GetWorkspaceFolder(document.fsPath) IN
       IF workspaceFolder = NoFolder THEN trackers
       ELSE LET relative ==
                  toPosix(PathRelative(RootPath(workspaceFolder), document.fsPath, sep))
            IN IF relative = << >> \/ StartsWith(relative, DotDot) THEN trackers
               ELSE LET created == getWorkspaceTracker(trackers, state, workspaceFolder)
                        pushed == Append(created[workspaceFolder].history, relative)
                    IN [created EXCEPT ![workspaceFolder].history =
                          IF Len(pushed) > HistoryLimit
                          THEN SubSeq(pushed, 1, Len(pushed) - 1)
                          ELSE pushed]

\* lines 483-503
trackDocument(trackers, state, suppress, document, sep) ==
  IF suppress THEN trackers
  ELSE IF document.scheme # "file" THEN trackers
  ELSE LET workspaceFolder == GetWorkspaceFolder(document.fsPath) IN
       IF workspaceFolder = NoFolder THEN trackers
       ELSE LET relative ==
                  toPosix(PathRelative(RootPath(workspaceFolder), document.fsPath, sep))
            IN IF relative = << >> \/ StartsWith(relative, DotDot) THEN trackers
               ELSE LET created == getWorkspaceTracker(trackers, state, workspaceFolder)
                        pushed == Append(created[workspaceFolder].history, relative)
                    IN [created EXCEPT ![workspaceFolder].history =
                          IF Len(pushed) > HistoryLimit THEN Tail(pushed) ELSE pushed]

\* the history variable: the event is logged when trackDocument accepts it
LogAccepted(log, suppress, document, sep) ==
  LET workspaceFolder == GetWorkspaceFolder(document.fsPath)
      relative == toPosix(PathRelative(RootPath(workspaceFolder), document.fsPath, sep))
  IN IF /\ ~suppress
        /\ document.scheme = "file"
        /\ workspaceFolder # NoFolder
        /\ relative # << >>
        /\ ~StartsWith(relative, DotDot)
     THEN [log EXCEPT ![workspaceFolder] = Append(@, relative)]
     ELSE log

\* no composeSegments call is under way
ComposeIdle ==
  /\ segments = << >>
  /\ maxChars = [kind |-> "undefined", halves |-> 0]
  /\ pc = "idle"
  /\ effectiveLimit = NoLimit
  /\ index = 0
  /\ currentLength = 0
  /\ textParts = << >>
  /\ truncated = FALSE
  /\ optionalLimitReached = FALSE
  /\ breakIndex = 0
  /\ includedFiles = << >>
  /\ truncatedFiles = << >>

\* buildContextMarkdown has not called getTrackedSelections yet
NoSelections == [called |-> FALSE, files |-> << >>, treeHighlights |-> << >>]

\* ------------------------------------------------------- document events
PathSeparators == {"/", "\\"}
EventDocuments ==
  {NoDocument, DocUntitled, DocX, DocY, DocDots, DocOther, DocOutside}

WithinEventBounds(log) ==
  /\ Len(log[FirstRoot]) <= MaxEvents
  /\ \A r \in Roots \ {FirstRoot} : Len(log[r]) <= MaxOtherEvents

\* lines 72-141: the state after activate(), which tracks the active editor
InitTrack ==
  /\ ComposeIdle
  /\ AuxIdle
  /\ pathSep \in PathSeparators
  /\ activeTextEditor \in EventDocuments
  /\ workspaceState = [r \in Roots |-> NoStored]
  /\ suppressTracking = FALSE
  /\ workspaceTrackers =
       trackDocument([r \in Roots |-> NoTracker], workspaceState, suppressTracking,
                     activeTextEditor, pathSep)
  /\ accepted =
       LogAccepted([r \in Roots |-> << >>], suppressTracking, activeTextEditor, pathSep)
  /\ trackedSelections = NoSelections

\* line 136: onDidOpenTextDocument((document) => trackDocument(document))
OpenTextDocument(document) ==
  /\ document # NoDocument
  /\ workspaceTrackers' =
       trackDocument(workspaceTrackers, workspaceState, suppressTracking, document, pathSep)
  /\ accepted' = LogAccepted(accepted, suppressTracking, document, pathSep)
  /\ WithinEventBounds(accepted')
  /\ UNCHANGED << composeVars, auxVars, pathSep, activeTextEditor, workspaceState,
                  suppressTracking, trackedSelections >>

\* line 137: onDidChangeActiveTextEditor((editor) => trackDocument(editor?.document))
ChangeActiveTextEditor(document) ==
  /\ activeTextEditor' = document
  /\ workspaceTrackers' =
       trackDocument(workspaceTrackers, workspaceState, suppressTracking, document, pathSep)
  /\ accepted' = LogAccepted(accepted, suppressTracking, document, pathSep)
  /\ WithinEventBounds(accepted')
  /\ UNCHANGED << composeVars, auxVars, pathSep, workspaceState, suppressTracking,
                  trackedSelections >>

NextTrack ==
  \/ \E document \in EventDocuments : OpenTextDocument(document)
  \/ \E document \in EventDocuments : ChangeActiveTextEditor(document)

SpecTrack == InitTrack /\ [][NextTrack]_vars

\* ------------------------------------------------- getTrackedSelections
\* the value of a path that is `undefined`; no path has a segment character
\* longer than one character
UndefinedPath == << "undefined" >>

\* lines 511-521: counts.get(entry).count and .lastIndex
EntryCount(history, entry) == Cardinality({ i \in 1..Len(history) : history[i] = entry })
EntryLastIndex(history, entry) ==
  CHOOSE i \in 1..Len(history) :
    history[i] = entry /\ \A j \in (i + 1)..Len(history) : history[j] # entry

\* mutant: ties are broken by the oldest last occurrence
SortsBeforeOldestFirst(history, a, b) ==
  IF EntryCount(history, b) # EntryCount(history, a)
  THEN EntryCount(history, b) - EntryCount(history, a) < 0
  ELSE EntryLastIndex(history, a) - EntryLastIndex(history, b) < 0

\* lines 524-529: the comparator's result is negative, a sorts before b
SortsBefore(history, a, b) ==
  IF EntryCount(history, b) # EntryCount(history, a)
  THEN EntryCount(history, b) - EntryCount(history, a) < 0
  ELSE EntryLastIndex(history, b) - EntryLastIndex(history, a) < 0

RECURSIVE SortEntries(_, _)
SortEntries(history, entries) ==
  IF entries = {} THEN << >>
  ELSE LET first == CHOOSE e \in entries :
                      \A o \in entries \ {e} : SortsBefore(history, e, o)
       IN << first >> \o SortEntries(history, entries \ {first})

\* lines 523-530
SortedByFrequency(history) == SortEntries(history, Range(history))

\* lines 532-534: files, treeHighlights (a Set, in insertion order), seen
EmptySelection == [files |-> << >>, treeHighlights |-> << >>, seen |-> {}]

\* mutant: addFile without the seen check
addFileUnchecked(sel, entry) ==
  IF entry = UndefinedPath \/ entry = << >> \/ StartsWith(entry, DotDot)
  THEN sel
  ELSE [sel EXCEPT !.seen = @ \cup {entry}, !.files = Append(@, entry)]

\* lines 536-542
addFile(sel, entry) ==
  IF entry = UndefinedPath \/ entry = << >> \/ StartsWith(entry, DotDot)
       \/ entry \in sel.seen
  THEN sel
  ELSE [sel EXCEPT !.seen = @ \cup {entry}, !.files = Append(@, entry)]

\* treeHighlights.add(entry)
addHighlight(sel, entry) ==
  IF entry \in Range(sel.treeHighlights) THEN sel
  ELSE [sel EXCEPT !.treeHighlights = Append(@, entry)]

RECURSIVE AddHighlightedFiles(_, _)
\* lines 545-548 and 552-555: each file is highlighted and added
AddHighlightedFiles(sel, entries) ==
  IF entries = << >> THEN sel
  ELSE AddHighlightedFiles(addFile(addHighlight(sel, Head(entries)), Head(entries)),
                           Tail(entries))

RECURSIVE AddManualDirectories(_, _)
\* lines 550-556
AddManualDirectories(sel, directories) ==
  IF directories = << >> THEN sel
  ELSE AddManualDirectories(
         AddHighlightedFiles(addHighlight(sel, Head(directories).dir),
                             Head(directories).files),
         Tail(directories))

\* lines 558-561
ActivePath(rootPath, activeDocument, sep) ==
  IF activeDocument.scheme = "file"
  THEN toPosix(PathRelative(rootPath, activeDocument.fsPath, sep))
  ELSE UndefinedPath

\* lines 563-566
AddActive(sel, activePath) ==
  IF activePath # UndefinedPath /\ ~StartsWith(activePath, DotDot) /\ activePath # << >>
  THEN addFile(addHighlight(sel, activePath), activePath)
  ELSE sel

RECURSIVE FrequencyPass(_, _, _)
\* lines 568-577
FrequencyPass(sel, candidates, activePath) ==
  IF candidates = << >> THEN sel
  ELSE IF Len(sel.files) >= 3 THEN sel
  ELSE IF Head(candidates) = << >> \/ Head(candidates) = activePath
       THEN FrequencyPass(sel, Tail(candidates), activePath)
       ELSE FrequencyPass(addFile(addHighlight(sel, Head(candidates)), Head(candidates)),
                          Tail(candidates), activePath)

RECURSIVE RecencyPassUnchecked(_, _, _, _)
\* mutant: the fallback adds its candidates without the seen check
RecencyPassUnchecked(sel, history, at, activePath) ==
  IF ~(at >= 0 /\ Len(sel.files) < 3) THEN sel
  ELSE LET candidate == history[at + 1] IN
       IF candidate = << >> \/ candidate = activePath
       THEN RecencyPassUnchecked(sel, history, at - 1, activePath)
       ELSE RecencyPassUnchecked(
              addFileUnchecked(addHighlight(sel, candidate), candidate),
              history, at - 1, activePath)

RECURSIVE RecencyPass(_, _, _, _)
\* lines 579-588; at is the loop's index, 0-based as in the code
RecencyPass(sel, history, at, activePath) ==
  IF ~(at >= 0 /\ Len(sel.files) < 3) THEN sel
  ELSE LET candidate == history[at + 1] IN
       IF candidate = << >> \/ candidate = activePath
       THEN RecencyPass(sel, history, at - 1, activePath)
       ELSE RecencyPass(addFile(addHighlight(sel, candidate), candidate),
                        history, at - 1, activePath)

\* lines 505-591
getTrackedSelections(tracker, rootPath, activeDocument, sep) ==
  LET activePath == ActivePath(rootPath, activeDocument, sep)
      manual == AddHighlightedFiles(EmptySelection, tracker.manualFiles)
      pinned == AddManualDirectories(manual, tracker.manualDirectories)
      active == AddActive(pinned, activePath)
      frequent == FrequencyPass(active, SortedByFrequency(tracker.history), activePath)
      recent == IF Len(frequent.files) < 3
                THEN RecencyPass(frequent, tracker.history, Len(tracker.history) - 1,
                                 activePath)
                ELSE frequent
  IN [called |-> TRUE, files |-> recent.files, treeHighlights |-> recent.treeHighlights]

\* ---- getTrackedSelections as a function of the tracker and the active editor
HistoryPaths == { <<"x">>, <<"y">>, <<"z">>, <<"w">> }
Histories == UNION { [1..n -> HistoryPaths] : n \in 0..MaxHistory }
\* pinned files in the order they were pinned; paths toggleManualTracking
\* accepts (lines 161-164): not empty, not starting with '..'
ManualFileChoices ==
  { << >>, << <<"x">> >>, << <<"d", "/", "p">> >>,
    << <<"x">>, <<"d", "/", "p">> >>, << <<"d", "/", "p">>, <<"x">> >> }
\* a pinned directory with the files captured under it (lines 183-184)
ManualDirectoryChoices ==
  { << >>,
    << [dir |-> <<"d">>, files |-> << >>] >>,
    << [dir |-> <<"d">>, files |-> << <<"d", "/", "p">>, <<"d", "/", "q">> >>] >> }
SelectDocuments ==
  {NoDocument, DocUntitled, DocX, DocZ, DocNested, DocDots, DocOther}

Tracker(history, manualFiles, manualDirectories) ==
  [exists |-> TRUE, history |-> history, manualFiles |-> manualFiles,
   manualDirectories |-> manualDirectories]

\* a property name that is an array index: its entries come first in
\* Object.entries, in ascending numeric order (names of one digit here)
Digits == << "0", "1", "2", "3", "4", "5", "6", "7", "8", "9" >>
IsIndexKey(entry) == Len(entry.dir) = 1 /\ entry.dir[1] \in Range(Digits)
IsNameKey(entry) == ~IsIndexKey(entry)
DigitValue(key) == CHOOSE v \in 1..Len(Digits) : Digits[v] = key[1]
RECURSIVE SortIndexKeys(_)
SortIndexKeys(list) ==
  IF list = << >> THEN << >>
  ELSE LET least == CHOOSE i \in 1..Len(list) :
                      \A j \in 1..Len(list) : DigitValue(list[i].dir) <= DigitValue(list[j].dir)
       IN << list[least] >>
            \o SortIndexKeys(SubSeq(list, 1, least - 1) \o SubSeq(list, least + 1, Len(list)))
\* lines 656-658: Object.fromEntries of the Map entries, as Object.entries lists it
ObjectFromEntries(map) ==
  SortIndexKeys(SelectSeq(map, IsIndexKey)) \o SelectSeq(map, IsNameKey)

\* what saveManualTracking stores for a tracker (lines 654-660)
Serialized(tracker) ==
  [present |-> TRUE, files |-> tracker.manualFiles,
   directories |-> ObjectFromEntries(tracker.manualDirectories)]

\* a tracker of the first root with some history and pins, or no tracker yet
\* and the pins of an earlier session in the workspace state
InitSelect ==
  /\ ComposeIdle
  /\ AuxIdle
  /\ pathSep \in PathSeparators
  /\ activeTextEditor \in SelectDocuments
  /\ suppressTracking = FALSE
  /\ trackedSelections = NoSelections
  /\ \E history \in Histories, manualFiles \in ManualFileChoices,
        manualDirectories \in ManualDirectoryChoices :
       LET tracker == Tracker(history, manualFiles, manualDirectories) IN
         /\ accepted = [r \in Roots |-> IF r = FirstRoot THEN history ELSE << >>]
         /\ \/ /\ workspaceTrackers =
                    [r \in Roots |-> IF r = FirstRoot THEN tracker ELSE NoTracker]
               /\ workspaceState = [r \in Roots |-> NoStored]
            \/ /\ history = << >>
               /\ workspaceTrackers = [r \in Roots |-> NoTracker]
               /\ workspaceState =
                    [r \in Roots |-> IF r = FirstRoot THEN Serialized(tracker)
                                     ELSE NoStored]

\* lines 219-222: buildContextMarkdown asks for the tracked selections of the
\* first workspace folder and the active editor's document
SelectTracked ==
  /\ ~trackedSelections.called
  /\ workspaceTrackers' = getWorkspaceTracker(workspaceTrackers, workspaceState, FirstRoot)
  /\ trackedSelections' =
       getTrackedSelections(workspaceTrackers'[FirstRoot], RootPath(FirstRoot),
                            activeTextEditor, pathSep)
  /\ UNCHANGED << composeVars, auxVars, pathSep, activeTextEditor, workspaceState,
                  suppressTracking, accepted >>

SpecSelect == InitSelect /\ [][SelectTracked]_vars

\* ------------------------------------------------- toggleManualTracking
\* const MAX_TRACKED_FILES_PER_DIRECTORY = 200 (line 68)
MAX_TRACKED_FILES_PER_DIRECTORY == 200

\* the resources of the first root a toggle can be asked for: a file, a
\* directory with two files, an empty directory and a path that is not on disk
ResourceX == << <<"A">>, <<"x">> >>
ResourceD == << <<"A">>, <<"d">> >>
ResourceOne == << <<"A">>, <<"1">> >>
ResourceMissing == << <<"A">>, <<"m">> >>
\* `undefined` where a resource is expected
NoResource == << >>
\* vscode.workspace.fs.stat(targetUri): "missing" is a rejected stat
FileType(fsPath) ==
  IF fsPath \in {ResourceD, ResourceOne} THEN "directory"
  ELSE IF fsPath = ResourceMissing THEN "missing"
  ELSE "file"
\* fast-glob's '**/*' listing below a directory, relative to it
GlobFiles(fsPath) ==
  IF fsPath = ResourceD THEN << <<"p">>, <<"q">> >> ELSE << >>

\* lines 663-681
collectFilesUnderDirectory(root, relativeDir, sep) ==
  LET absolute == RootPath(root) \o << relativeDir >>
      found == Slice(GlobFiles(absolute), MAX_TRACKED_FILES_PER_DIRECTORY)
  IN [i \in 1..Len(found) |-> toPosix(relativeDir \o << sep >> \o found[i])]

\* lines 647-661; workspaceState.update stores the value at the call
saveManualTracking(state, root, tracker) ==
  [state EXCEPT ![root] = Serialized(tracker)]

\* Set.prototype.delete, Map.prototype.delete
SetDelete(set, entry) == SelectSeq(set, LAMBDA e : e # entry)
MapDelete(map, key) == SelectSeq(map, LAMBDA e : e.dir # key)

\* line 146: resource ?? vscode.window.activeTextEditor?.document.uri
TargetUri(resource, activeDocument) ==
  IF resource # NoResource THEN resource ELSE activeDocument.fsPath

Calls == {1, 2}
ToggleResources ==
  {NoResource, ResourceX, ResourceD, ResourceOne, ResourceMissing,
   DocOther.fsPath, DocOutside.fsPath}
NewCall(resource) ==
  [resource |-> resource, pc |-> "start", targetUri |-> << >>, root |-> NoFolder,
   relative |-> << >>]


\* The steps of one invocation, as functions of the module state
\* `world = [trackers, state]` and of the invocation's own position and locals.

\* lines 146-165: up to the await of stat
ToggleBeginStep(world, call, activeDocument, sep) ==
  LET targetUri == TargetUri(call.resource, activeDocument)
      workspaceFolder == GetWorkspaceFolder(targetUri)
      returned == [call EXCEPT !.pc = "done"]
  IN IF targetUri = << >> \/ workspaceFolder = NoFolder
     THEN [world |-> world, call |-> returned]
     ELSE LET created == getWorkspaceTracker(world.trackers, world.state, workspaceFolder)
              relative == toPosix(PathRelative(RootPath(workspaceFolder), targetUri, sep))
          IN [world |-> [world EXCEPT !.trackers = created],
              call |-> IF relative = << >> \/ StartsWith(relative, DotDot)
                       THEN returned
                       ELSE [call EXCEPT !.pc = "stat", !.targetUri = targetUri,
                                         !.root = workspaceFolder,
                                         !.relative = relative]]

\* mutant: the changed tracker is not persisted
ToggleUnsaved(world, call, tracker) ==
  [world |-> [trackers |-> [world.trackers EXCEPT ![call.root] = tracker],
              state |-> world.state],
   call |-> [call EXCEPT !.pc = "save"]]

\* the tracker changed and saved (lines 177, 184, 195, 201), up to the await
\* of workspaceState.update
ToggleSaved(world, call, tracker) ==
  [world |-> [trackers |-> [world.trackers EXCEPT ![call.root] = tracker],
              state |-> saveManualTracking(world.state, call.root, tracker)],
   call |-> [call EXCEPT !.pc = "save"]]

\* lines 167-181 and 192-201: from the stat result to the next await
ToggleStatStep(world, call) ==
  LET tracker == world.trackers[call.root]
      isDirectory == FileType(call.targetUri) = "directory"
  IN IF isDirectory
     THEN IF MapHas(tracker.manualDirectories, call.relative)
          THEN ToggleSaved(world, call,
                 [tracker EXCEPT !.manualDirectories = MapDelete(@, call.relative)])
          ELSE [world |-> world, call |-> [call EXCEPT !.pc = "collect"]]
     ELSE IF call.relative \in Range(tracker.manualFiles)
          THEN ToggleSaved(world, call,
                 [tracker EXCEPT !.manualFiles = SetDelete(@, call.relative)])
          ELSE ToggleSaved(world, call,
                 [tracker EXCEPT !.manualFiles = Append(@, call.relative)])

\* lines 182-184: the directory listing arrived
ToggleCollectStep(world, call, sep) ==
  LET tracker == world.trackers[call.root]
      collectedFiles == collectFilesUnderDirectory(call.root, call.relative, sep)
  IN ToggleSaved(world, call,
       [tracker EXCEPT !.manualDirectories =
          MapSet(@, call.relative, Unique(collectedFiles))])

\* lines 178-179, 185-190, 196-197, 202: the update resolved, the message is shown
ToggleSaveStep(world, call) ==
  [world |-> world, call |-> [call EXCEPT !.pc = "done"]]

ToggleStep(world, call, activeDocument, sep) ==
  IF call.pc = "start" THEN ToggleBeginStep(world, call, activeDocument, sep)
  ELSE IF call.pc = "stat" THEN ToggleStatStep(world, call)
  ELSE IF call.pc = "collect" THEN ToggleCollectStep(world, call, sep)
  ELSE ToggleSaveStep(world, call)

RECURSIVE RunToggle(_, _, _, _)
\* lines 145-203: one invocation run to its end with nothing in between
RunToggle(world, call, activeDocument, sep) ==
  IF call.pc = "done" THEN world
  ELSE LET next == ToggleStep(world, call, activeDocument, sep)
       IN RunToggle(next.world, next.call, activeDocument, sep)
toggleManualTracking(world, resource, activeDocument, sep) ==
  RunToggle(world, NewCall(resource), activeDocument, sep)

World == [trackers |-> workspaceTrackers, state |-> workspaceState]

\* what earlier sessions may have stored for the first root
StoredStarts ==
  { NoStored,
    Serialized(Tracker(<< >>, << <<"x">> >>, << >>)),
    Serialized(Tracker(<< >>, << >>,
      << [dir |-> <<"d">>, files |-> << <<"d", "/", "p">>, <<"d", "/", "q">> >>] >>)) }

\* the state after activate(), with two invocations of the command requested
InitToggle ==
  /\ ComposeIdle
  /\ pathSep \in PathSeparators
  /\ activeTextEditor \in {NoDocument, DocX}
  /\ \E stored \in StoredStarts :
       workspaceState = [r \in Roots |-> IF r = FirstRoot THEN stored ELSE NoStored]
  /\ suppressTracking = FALSE
  /\ workspaceTrackers =
       trackDocument([r \in Roots |-> NoTracker], workspaceState, suppressTracking,
                     activeTextEditor, pathSep)
  /\ accepted =
       LogAccepted([r \in Roots |-> << >>], suppressTracking, activeTextEditor, pathSep)
  /\ trackedSelections = NoSelections
  /\ toggleCalls \in [Calls -> { NewCall(resource) : resource \in ToggleResources }]
  /\ toggleStart = workspaceState
  /\ config = DefaultConfig
  /\ visibleTextEditors = << >>
  /\ collection = [pc |-> "idle"]
  /\ activations = << >>
  /\ treeEntries = << >>
  /\ tree = [pc |-> "idle"]
  /\ copies = << >>

ToggleFrame ==
  UNCHANGED << composeVars, pathSep, activeTextEditor, suppressTracking,
               trackedSelections, accepted, toggleStart, config,
               visibleTextEditors, collection, activations, treeEntries, tree,
               copies >>

\* one step of invocation c
ToggleAdvance(c, next) ==
  /\ workspaceTrackers' = next.world.trackers
  /\ workspaceState' = next.world.state
  /\ toggleCalls' = [toggleCalls EXCEPT ![c] = next.call]
  /\ ToggleFrame

ToggleBegin(c) ==
  /\ toggleCalls[c].pc = "start"
  /\ ToggleAdvance(c, ToggleBeginStep(World, toggleCalls[c], activeTextEditor, pathSep))

ToggleAfterStat(c) ==
  /\ toggleCalls[c].pc = "stat"
  /\ ToggleAdvance(c, ToggleStatStep(World, toggleCalls[c]))

ToggleAfterCollect(c) ==
  /\ toggleCalls[c].pc = "collect"
  /\ ToggleAdvance(c, ToggleCollectStep(World, toggleCalls[c], pathSep))

ToggleAfterSave(c) ==
  /\ toggleCalls[c].pc = "save"
  /\ ToggleAdvance(c, ToggleSaveStep(World, toggleCalls[c]))

NextToggle ==
  \/ \E c \in Calls : ToggleBegin(c)
  \/ \E c \in Calls : ToggleAfterStat(c)
  \/ \E c \in Calls : ToggleAfterCollect(c)
  \/ \E c \in Calls : ToggleAfterSave(c)

SpecToggle == InitToggle /\ [][NextToggle]_vars

\* ----------------------------------- buildContextMarkdown: file collection
\* a finite maxFiles up to this many files (kept in halves, like maxChars)
MaxFileLimit == 2
\* user activations while one snapshot is being built
MaxActivations == 1

RECURSIVE Split(_)
\* String.prototype.split('/')
Split(path) ==
  IF \A i \in 1..Len(path) : path[i] # "/" THEN << path >>
  ELSE LET cut == CHOOSE i \in 1..Len(path) :
                    path[i] = "/" /\ \A j \in 1..(i - 1) : path[j] # "/"
       IN << SubSeq(path, 1, cut - 1) >> \o Split(SubSeq(path, cut + 1, Len(path)))

\* line 410: vscode.Uri.joinPath(workspaceFolder.uri, relative), as a document
DocumentAt(root, relative) == FileDocument(RootPath(root) \o Split(relative))

\* a skipped entry: `${relative}: ${reason}` (lines 420, 467)
SkipEntry(relative, reason) == relative \o << ":", " " >> \o reason
\* lines 464-466
CombinedReason(originalReason, fallbackReason) ==
  IF fallbackReason # << >>
  THEN originalReason \o << ";", " " >> \o fallbackReason
  ELSE originalReason

\* lines 386-406: the documents the strategy starts from
StartDocuments(sourceStrategy, activeEditor, visible) ==
  LET chosen ==
        IF sourceStrategy \in {"smart", "activeOnly"}
        THEN IF activeEditor # NoDocument THEN << activeEditor >> ELSE << >>
        ELSE IF sourceStrategy = "openEditors" THEN Unique(visible) ELSE << >>
  IN IF chosen = << >> /\ activeEditor # NoDocument THEN << activeEditor >> ELSE chosen

\* mutant: the file limit is not applied
LimitDocsUncut(docList, maxFiles) ==
  IF ~IsFinite(maxFiles) THEN docList
  ELSE IF Floor(maxFiles) <= 0 THEN << >>
  ELSE docList

\* lines 429-435: docList cut to the file limit
LimitDocs(docList, maxFiles) ==
  IF ~IsFinite(maxFiles) THEN docList
  ELSE IF Floor(maxFiles) <= 0 THEN << >>
  ELSE Slice(docList, Floor(maxFiles))

\* lines 438-445: the path of a document of the read loop, or << >> when the
\* loop skips it
ReadablePath(document, sep) ==
  IF document.scheme # "file" THEN << >>
  ELSE LET relative == toPosix(PathRelative(RootPath(FirstRoot), document.fsPath, sep))
       IN IF relative = << >> \/ StartsWith(relative, DotDot) THEN << >> ELSE relative

\* lines 437-479: the read loop runs on to the next document it reads, or ends
AdvanceRead(c, sep) ==
  LET readable == { j \in c.reading..Len(c.limitedDocs) :
                      ReadablePath(c.limitedDocs[j], sep) # << >> }
  IN IF readable = {} THEN [c EXCEPT !.pc = "done", !.reading = Len(c.limitedDocs) + 1]
     ELSE [c EXCEPT !.pc = "reading",
                    !.reading = CHOOSE j \in readable : \A k \in readable : j <= k]

\* lines 428-437: after the open loop
EnterRead(c, maxFiles, sep) ==
  AdvanceRead([c EXCEPT !.limitedDocs = LimitDocs(c.documents, maxFiles), !.reading = 1],
              sep)

\* lines 408-426: the open loop runs on to the next tracked path that is not
\* among the documents yet, or ends
AdvanceOpen(c, maxFiles, sep) ==
  LET pending == IF c.sourceStrategy # "smart" THEN {}
                 ELSE { i \in c.at..Len(c.uniqueTrackedPaths) :
                          DocumentAt(FirstRoot, c.uniqueTrackedPaths[i])
                            \notin Range(c.documents) }
  IN IF pending = {} THEN EnterRead(c, maxFiles, sep)
     ELSE [c EXCEPT !.pc = "opening",
                    !.at = CHOOSE i \in pending : \A k \in pending : i <= k]

\* lines 371-407: collectRelevantFiles from its call to its first await
CollectStart(sourceStrategy, maxFiles, trackedFiles, activeEditor, visible, sep) ==
  AdvanceOpen(
    [pc |-> "collect",
     sourceStrategy |-> sourceStrategy,
     activeEditor |-> activeEditor,
     uniqueTrackedPaths |-> Unique(SelectSeq(trackedFiles, NonEmptyEntry)),
     documents |-> StartDocuments(sourceStrategy, activeEditor, visible),
     at |-> 1,
     limitedDocs |-> << >>,
     reading |-> 0,
     files |-> << >>,
     skipped |-> << >>,
     outcomes |-> << >>],
    maxFiles, sep)

\* lines 413-424: openTextDocument resolved or rejected
OpenSettled(c, opened, reason, maxFiles, sep) ==
  LET relative == c.uniqueTrackedPaths[c.at]
      settled ==
        IF opened
        THEN [c EXCEPT !.documents = Append(@, DocumentAt(FirstRoot, relative))]
        ELSE [c EXCEPT !.skipped = Append(@, SkipEntry(relative, reason))]
  IN AdvanceOpen(
       [settled EXCEPT !.at = c.at + 1,
                       !.outcomes = Append(@, [step |-> "open", path |-> relative,
                                               ok |-> opened])],
       maxFiles, sep)

\* mutant: a failed read also leaves a file entry
ReadSettledKeepsFailed(c, read, originalReason, fallbackReason, sep) ==
  LET relative == ReadablePath(c.limitedDocs[c.reading], sep)
      settled ==
        IF read
        THEN [c EXCEPT !.files = Append(@, [path |-> relative])]
        ELSE [c EXCEPT !.files = Append(@, [path |-> relative]),
                       !.skipped = Append(@, SkipEntry(relative,
                                      CombinedReason(originalReason, fallbackReason)))]
  IN AdvanceRead(
       [settled EXCEPT !.reading = c.reading + 1,
                       !.outcomes = Append(@, [step |-> "read", path |-> relative,
                                               ok |-> read])],
       sep)

\* lines 447-478: the content of a document was read (from disk or, failing
\* that, from the editor), or both reads failed
ReadSettled(c, read, originalReason, fallbackReason, sep) ==
  LET relative == ReadablePath(c.limitedDocs[c.reading], sep)
      settled ==
        IF read
        THEN [c EXCEPT !.files = Append(@, [path |-> relative])]
        ELSE [c EXCEPT !.skipped = Append(@, SkipEntry(relative,
                                      CombinedReason(originalReason, fallbackReason)))]
  IN AdvanceRead(
       [settled EXCEPT !.reading = c.reading + 1,
                       !.outcomes = Append(@, [step |-> "read", path |-> relative,
                                               ok |-> read])],
       sep)

\* ---------------------------------------------------------------- buildTree
\* entries handed to one buildTree call
MaxEntries == 3

\* the characters of the names, in the order of their UTF-16 code units
CodeUnitOrder == << "1", "B", "a", "b", "c", "d", "p", "q", "w", "x", "y", "z" >>
\* the letters and digits in the order of the collation localeCompare uses:
\* digits before letters, letters alphabetically whatever their case
CollationOrder == << "1", "a", "b", "c", "d", "p", "q", "w", "x", "y", "z" >>
IsUpperCase(ch) == ch = "B"
ToLowerCase(ch) == IF ch = "B" THEN "b" ELSE ch
PositionIn(order, ch) == CHOOSE i \in 1..Len(order) : order[i] = ch
CodeUnits(name) == [i \in 1..Len(name) |-> PositionIn(CodeUnitOrder, name[i])]
PrimaryKeys(name) ==
  [i \in 1..Len(name) |-> PositionIn(CollationOrder, ToLowerCase(name[i]))]
\* lower case sorts before upper case when the letters are the same
CaseKeys(name) == [i \in 1..Len(name) |-> IF IsUpperCase(name[i]) THEN 1 ELSE 0]

RECURSIVE LexLess(_, _)
\* lexicographic order of two lists of numbers
LexLess(a, b) ==
  IF b = << >> THEN FALSE
  ELSE IF a = << >> THEN TRUE
  ELSE IF Head(a) # Head(b) THEN Head(a) < Head(b)
  ELSE LexLess(Tail(a), Tail(b))

\* a.name.localeCompare(b.name) < 0 (line 751)
LocaleBefore(a, b) ==
  \/ LexLess(PrimaryKeys(a), PrimaryKeys(b))
  \/ PrimaryKeys(a) = PrimaryKeys(b) /\ LexLess(CaseKeys(a), CaseKeys(b))

\* the root node's path (line 705)
RootNodePath == << >>
\* the nodes below the root, in the order they were created; the children of
\* a node are the nodes whose path is the node's path and one more name
ChildPath(parentPath, head) ==
  IF parentPath # << >> THEN parentPath \o << "/" >> \o head ELSE head
ParentPath(path) ==
  LET parts == Split(path) IN JoinPath(SubSeq(parts, 1, Len(parts) - 1), "/")
Children(nodes, parentPath) ==
  SelectSeq(nodes, LAMBDA node : ParentPath(node.path) = parentPath)
HasNode(nodes, path) == \E i \in 1..Len(nodes) : nodes[i].path = path

RECURSIVE insertPathUnchecked(_, _, _, _)
\* mutant: insertPath without the lookup in childMap
insertPathUnchecked(nodes, nodePath, parts, isDir) ==
  IF parts = << >> THEN nodes
  ELSE LET head == Head(parts)
           rest == Tail(parts)
           childPath == ChildPath(nodePath, head)
           inserted == Append(nodes, [name |-> head, path |-> childPath,
                                      isDir |-> (rest # << >> \/ isDir)])
       IN IF rest # << >> THEN insertPathUnchecked(inserted, childPath, rest, isDir)
          ELSE inserted

RECURSIVE insertPath(_, _, _, _)
\* lines 719-744
insertPath(nodes, nodePath, parts, isDir) ==
  IF parts = << >> THEN nodes
  ELSE LET head == Head(parts)
           rest == Tail(parts)
           childPath == ChildPath(nodePath, head)
           inserted ==
             IF ~HasNode(nodes, childPath)
             THEN Append(nodes, [name |-> head, path |-> childPath,
                                 isDir |-> (rest # << >> \/ isDir)])
             ELSE IF rest = << >> /\ isDir
             THEN [i \in 1..Len(nodes) |->
                     IF nodes[i].path = childPath
                     THEN [nodes[i] EXCEPT !.isDir = TRUE] ELSE nodes[i]]
             ELSE nodes
       IN IF rest # << >> THEN insertPath(inserted, childPath, rest, isDir)
          ELSE inserted

\* the comparator of sortTree (lines 747-752): a sorts before b
SortsFirst(a, b) ==
  IF a.isDir # b.isDir THEN a.isDir ELSE LocaleBefore(a.name, b.name)

RECURSIVE SortNodes(_)
\* Array.prototype.sort with that comparator
SortNodes(list) ==
  IF list = << >> THEN << >>
  ELSE LET first == CHOOSE i \in 1..Len(list) :
                      \A j \in 1..Len(list) : j # i => ~SortsFirst(list[j], list[i])
       IN << list[first] >>
            \o SortNodes(SubSeq(list, 1, first - 1) \o SubSeq(list, first + 1, Len(list)))

RECURSIVE SortBelow(_, _)
\* the nodes below a node, each level sorted, parents before their children
SortBelow(nodes, nodePath) ==
  LET sorted == SortNodes(Children(nodes, nodePath))
      Below[i \in 0..Len(sorted)] ==
        IF i = 0 THEN << >>
        ELSE Below[i - 1] \o << sorted[i] >> \o SortBelow(nodes, sorted[i].path)
  IN Below[Len(sorted)]
\* lines 746-756
sortTree(nodes) == SortBelow(nodes, RootNodePath)

RECURSIVE RenderChildren(_, _, _, _, _)
\* lines 758-777: the lines of the children of a node, each a list of the
\* prefix pieces, the branch and the name; the box-drawing characters of the
\* source are written +-- , |-- and |
RenderChildren(nodes, nodePath, prefix, mode, expandPaths) ==
  LET children == Children(nodes, nodePath)
      Lines[i \in 0..Len(children)] ==
        IF i = 0 THEN << >>
        ELSE LET child == children[i]
                 isLast == i = Len(children)
                 branch == IF isLast THEN "+-- " ELSE "|-- "
                 nextPrefix == Append(prefix, IF isLast THEN "    " ELSE "|   ")
                 shouldExpand ==
                   /\ Children(nodes, child.path) # << >>
                   /\ (mode = "full" \/ (child.isDir /\ child.path \in expandPaths))
             IN Lines[i - 1]
                  \o << [prefix |-> prefix, branch |-> branch, name |-> child.name] >>
                  \o (IF shouldExpand
                      THEN RenderChildren(nodes, child.path, nextPrefix, mode, expandPaths)
                      ELSE << >>)
  IN Lines[Len(children)]

RECURSIVE InsertAll(_, _)
\* lines 708-710: insertPath for every entry, in order
InsertAll(nodes, list) ==
  IF list = << >> THEN nodes
  ELSE InsertAll(insertPath(nodes, RootNodePath, Split(Head(list).path), Head(list).isDir),
                 Tail(list))

\* lines 714-716: the root's name, then the lines of its children
RenderTree(nodes, rootName, mode, expandPaths) ==
  << [prefix |-> << >>, branch |-> "", name |-> rootName] >>
    \o RenderChildren(nodes, RootNodePath, << >>, mode, expandPaths)

\* lines 694-717
buildTree(list, rootName, mode, expandPaths) ==
  RenderTree(sortTree(InsertAll(<< >>, list)), rootName, mode, expandPaths)

\* workspaceFolder.name of the first root
RootName == << "A" >>
TreeEntry(path, isDir) == [path |-> path, isDir |-> isDir]
\* entries of one, two and three names: a name that is a file in one entry
\* and a directory, or the parent of another entry, in another
TreeEntries ==
  { TreeEntry(<<"a">>, FALSE), TreeEntry(<<"a">>, TRUE), TreeEntry(<<"B">>, FALSE),
    TreeEntry(<<"c">>, TRUE), TreeEntry(<<"a", "/", "c">>, FALSE),
    TreeEntry(<<"a", "/", "B">>, FALSE),
    TreeEntry(<<"a", "/", "B", "/", "c">>, FALSE) }
EntryLists == UNION { [1..n -> TreeEntries] : n \in 0..MaxEntries }
StructureModes == {"full", "smart"}
ExpandPathChoices == { {}, { <<"a">> }, { <<"a">>, <<"a", "/", "B">> } }

\* buildTree is called with a list of entries
InitTree ==
  /\ ComposeIdle
  /\ HostIdle
  /\ toggleCalls = << >>
  /\ toggleStart = << >>
  /\ config = DefaultConfig
  /\ visibleTextEditors = << >>
  /\ collection = [pc |-> "idle"]
  /\ activations = << >>
  /\ treeEntries \in EntryLists
  /\ copies = << >>
  /\ \E mode \in StructureModes, expandPaths \in ExpandPathChoices :
       tree = [pc |-> "insert", nodes |-> << >>, at |-> 1, lines |-> << >>,
               structureMode |-> mode, expandPaths |-> expandPaths]

TreeFrame ==
  UNCHANGED << composeVars, hostVars, toggleCalls, toggleStart, config,
               visibleTextEditors, collection, activations, treeEntries, copies >>

\* line 709: insertPath(root, entry.path.split('/'), entry.isDir)
InsertEntry ==
  /\ tree.pc = "insert"
  /\ tree.at <= Len(treeEntries)
  /\ tree' = [tree EXCEPT
                !.nodes = insertPath(@, RootNodePath, Split(treeEntries[tree.at].path),
                                     treeEntries[tree.at].isDir),
                !.at = @ + 1]
  /\ TreeFrame

\* line 712: sortTree(root)
SortTree ==
  /\ tree.pc = "insert"
  /\ tree.at > Len(treeEntries)
  /\ tree' = [tree EXCEPT !.nodes = sortTree(@), !.pc = "render"]
  /\ TreeFrame

\* lines 714-716
RenderLines ==
  /\ tree.pc = "render"
  /\ tree' = [tree EXCEPT
                !.lines = RenderTree(tree.nodes, RootName, tree.structureMode,
                                     tree.expandPaths),
                !.pc = "done"]
  /\ TreeFrame

NextTree ==
  \/ InsertEntry
  \/ SortTree
  \/ RenderLines

SpecTree == InitTree /\ [][NextTree]_vars

\* ------------------------------------------- buildContextMarkdown: steps
\* the raw entries fast-glob lists for the first root (markDirectories: a
\* directory ends with '/'), lines 327-335
RawEntries ==
  << <<"x">>, <<"y">>, <<"z">>, <<"w">>, <<"d", "/">>, <<"d", "/", "p">>,
     <<"d", "/", "q">>, <<"1", "/">> >>
\* entry.endsWith('/'), entry.replace(/\/$/, '')
EndsWithSlash(entry) == entry # << >> /\ entry[Len(entry)] = "/"
StripSlash(entry) ==
  IF EndsWithSlash(entry) THEN SubSeq(entry, 1, Len(entry) - 1) ELSE entry
\* ig.ignores(path) for rules that are plain names: a path is ignored when
\* one of its segments is named by a rule (.gitignore and ignoreGlobs)
Ignores(rules, path) == \E i \in 1..Len(Split(path)) : Split(path)[i] \in rules
RECURSIVE ScanEntries(_, _)
\* lines 337-349: the entries that are not ignored
ScanEntries(rawEntries, rules) ==
  IF rawEntries = << >> THEN << >>
  ELSE LET normalized == toPosix(StripSlash(Head(rawEntries)))
           rest == ScanEntries(Tail(rawEntries), rules)
       IN IF normalized = << >> \/ Ignores(rules, normalized) THEN rest
          ELSE << [path |-> normalized, isDir |-> EndsWithSlash(Head(rawEntries))] >>
                 \o rest

\* the number of path segments of a raw entry
EntryDepth(entry) == Len(Split(StripSlash(entry)))
Max(a, b) == IF a >= b THEN a ELSE b
RECURSIVE TrackedDepth(_, _)
\* lines 319-325: the deepest highlighted path, at least 1
TrackedDepth(highlightPaths, max) ==
  IF highlightPaths = << >> THEN max
  ELSE LET entry == Head(highlightPaths)
           depth == Len(Split(entry))
       IN TrackedDepth(Tail(highlightPaths),
                       IF entry # << >> /\ depth > max THEN depth ELSE max)
\* line 326
EffectiveDepth(structureMode, treeDepth, highlightPaths) ==
  IF structureMode = "smart" THEN Max(treeDepth, TrackedDepth(highlightPaths, 1))
  ELSE treeDepth
\* lines 327-335: fast-glob with deep: effectiveDepth
GlobEntries(rawEntries, effectiveDepth) ==
  SelectSeq(rawEntries, LAMBDA entry : EntryDepth(entry) <= effectiveDepth)
\* lines 351-365: every proper prefix of every highlighted path
ExpandPaths(structureMode, highlightPaths) ==
  IF structureMode # "smart" THEN {}
  ELSE UNION { { JoinPath(SubSeq(Split(highlightPaths[i]), 1, k), "/") :
                   k \in 1..(Len(Split(highlightPaths[i])) - 1) } :
               i \in 1..Len(highlightPaths) } \ { << >> }
\* lines 292-369: the entries that are not ignored and the tree built of them
generateProjectTree(settings, highlightPaths) ==
  LET effectiveDepth ==
        EffectiveDepth(settings.structureMode, settings.treeDepth, highlightPaths)
      scanned == ScanEntries(GlobEntries(RawEntries, effectiveDepth), settings.ignores)
      expandPaths == ExpandPaths(settings.structureMode, highlightPaths)
      nodes == sortTree(InsertAll(<< >>, scanned))
  IN [entries |-> scanned,
      tree |-> [pc |-> "done",
                nodes |-> nodes,
                at |-> Len(scanned) + 1,
                lines |-> RenderTree(nodes, RootName, settings.structureMode, expandPaths),
                structureMode |-> settings.structureMode,
                expandPaths |-> expandPaths]]

Strategies == {"smart", "activeOnly", "openEditors", "none"}
MaxFilesChoices ==
  { [kind |-> "NaN", halves |-> 0], [kind |-> "Infinity", halves |-> 0] }
    \cup { Number(h) : h \in -1..(2 * MaxFileLimit) }
IgnoreChoices == { {}, { <<"x">> } }
BuildDocuments == {NoDocument, DocUntitled, DocX, DocZ, DocOther}
\* the documents the user activates while the snapshot is being built
UserDocuments == {DocW}
\* pinned files and history of the first root's tracker
BuildTrackers ==
  { Tracker(<< >>, << >>, << >>),
    Tracker(<< >>, << <<"x">> >>, << >>),
    Tracker(<< <<"y">> >>, << <<"x">> >>, << >>),
    Tracker(<< <<"y">>, <<"z">> >>, << >>, << >>) }

\* the copyContext.copy command was invoked: buildContextMarkdown is called
InitBuild ==
  /\ ComposeIdle
  /\ pathSep \in PathSeparators
  /\ activeTextEditor \in BuildDocuments
  /\ visibleTextEditors \in
       IF activeTextEditor = NoDocument THEN { << >> }
       ELSE { << activeTextEditor >>, << DocY, activeTextEditor >> }
  /\ workspaceState = [r \in Roots |-> NoStored]
  /\ \E tracker \in BuildTrackers :
       /\ workspaceTrackers =
            [r \in Roots |-> IF r = FirstRoot THEN tracker ELSE NoTracker]
       /\ accepted = [r \in Roots |-> IF r = FirstRoot THEN tracker.history ELSE << >>]
  /\ suppressTracking = FALSE
  /\ trackedSelections = NoSelections
  /\ config \in [sources : Strategies, maxFiles : MaxFilesChoices, ignores : IgnoreChoices,
                  structureMode : {DefaultConfig.structureMode},
                  treeDepth : {DefaultTreeDepth}]
  /\ collection = [pc |-> "start"]
  /\ activations = << >>
  /\ toggleCalls = << >>
  /\ toggleStart = << >>
  /\ treeEntries = << >>
  /\ tree = [pc |-> "idle"]
  /\ copies = << >>

BuildFrame ==
  UNCHANGED << composeVars, pathSep, workspaceState, toggleCalls, toggleStart,
               config, visibleTextEditors, copies >>

\* lines 205-222: up to the await of generateProjectTree
BuildBegin ==
  /\ collection.pc = "start"
  /\ workspaceTrackers' = getWorkspaceTracker(workspaceTrackers, workspaceState, FirstRoot)
  /\ trackedSelections' =
       getTrackedSelections(workspaceTrackers'[FirstRoot], RootPath(FirstRoot),
                            activeTextEditor, pathSep)
  /\ collection' = [pc |-> "tree"]
  /\ BuildFrame
  /\ UNCHANGED << activeTextEditor, suppressTracking, accepted, activations,
                  treeEntries, tree >>

\* lines 223-235 and 292-407: the tree scan resolved; collectRelevantFiles is
\* called and runs to its first await
TreeScanned ==
  /\ collection.pc = "tree"
  /\ LET scan == generateProjectTree(config, trackedSelections.treeHighlights)
     IN treeEntries' = scan.entries /\ tree' = scan.tree
  /\ collection' = CollectStart(config.sources, config.maxFiles, trackedSelections.files,
                                activeTextEditor, visibleTextEditors, pathSep)
  /\ suppressTracking' = (collection'.pc = "opening")
  /\ BuildFrame
  /\ UNCHANGED << activeTextEditor, workspaceTrackers, trackedSelections, accepted,
                  activations >>

\* lines 413-416, 422-424: openTextDocument resolved; the open event reaches
\* trackDocument before the flag is reset
OpenResolves ==
  /\ collection.pc = "opening"
  /\ LET document == DocumentAt(FirstRoot, collection.uniqueTrackedPaths[collection.at])
     IN /\ workspaceTrackers' =
             trackDocument(workspaceTrackers, workspaceState, suppressTracking,
                           document, pathSep)
        /\ accepted' = LogAccepted(accepted, suppressTracking, document, pathSep)
  /\ collection' = OpenSettled(collection, TRUE, << >>, config.maxFiles, pathSep)
  /\ suppressTracking' = (collection'.pc = "opening")
  /\ BuildFrame
  /\ UNCHANGED << activeTextEditor, trackedSelections, activations, treeEntries, tree >>

\* lines 417-424: openTextDocument rejected
OpenRejects ==
  /\ collection.pc = "opening"
  /\ collection' = OpenSettled(collection, FALSE, << "E" >>, config.maxFiles, pathSep)
  /\ suppressTracking' = (collection'.pc = "opening")
  /\ BuildFrame
  /\ UNCHANGED << activeTextEditor, workspaceTrackers, trackedSelections, accepted,
                  activations, treeEntries, tree >>

\* lines 447-458, 472-479: the content was read, from disk or from the editor
ReadResolves ==
  /\ collection.pc = "reading"
  /\ collection' = ReadSettled(collection, TRUE, << >>, << >>, pathSep)
  /\ BuildFrame
  /\ UNCHANGED << activeTextEditor, workspaceTrackers, suppressTracking,
                  trackedSelections, accepted, activations, treeEntries, tree >>

\* lines 455-470: the read and the fallback both failed
ReadRejects ==
  /\ collection.pc = "reading"
  /\ \E fallbackReason \in { << >>, << "F" >> } :
       collection' = ReadSettled(collection, FALSE, << "E" >>, fallbackReason, pathSep)
  /\ BuildFrame
  /\ UNCHANGED << activeTextEditor, workspaceTrackers, suppressTracking,
                  trackedSelections, accepted, activations, treeEntries, tree >>

\* line 137: the user activates another document while the build awaits
UserActivates(document) ==
  /\ collection.pc \in {"tree", "opening", "reading"}
  /\ Len(activations) < MaxActivations
  /\ activeTextEditor' = document
  /\ workspaceTrackers' =
       trackDocument(workspaceTrackers, workspaceState, suppressTracking, document, pathSep)
  /\ accepted' = LogAccepted(accepted, suppressTracking, document, pathSep)
  /\ activations' = Append(activations, [document |-> document,
                                         suppressed |-> suppressTracking,
                                         before |-> activeTextEditor])
  /\ BuildFrame
  /\ UNCHANGED << suppressTracking, trackedSelections, collection, treeEntries, tree >>

NextBuild ==
  \/ BuildBegin
  \/ TreeScanned
  \/ OpenResolves
  \/ OpenRejects
  \/ ReadResolves
  \/ ReadRejects
  \/ \E document \in UserDocuments : UserActivates(document)

SpecBuild == InitBuild /\ [][NextBuild]_vars

\* ------------------------------------- two copyContext.copy commands in flight
\* lines 75-78: each invocation of the command runs its own
\* buildContextMarkdown; the builds share suppressTracking and the trackers
Copies == {1, 2}
\* the setting under which the build opens the tracked paths (line 408)
CopyConfig == [DefaultConfig EXCEPT !.sources = "smart"]
CopyDocuments == {NoDocument, DocX, DocY}
\* the documents the user switches to while the commands run
SwitchDocuments == {DocX, DocY}
CopyTrackers ==
  { Tracker(<< >>, << <<"x">> >>, << >>),
    Tracker(<< >>, << <<"x">>, <<"y">> >>, << >>) }
\* the document a build is waiting for at line 417
OpeningDocument(c) == DocumentAt(FirstRoot, c.uniqueTrackedPaths[c.at])

InitCopies ==
  /\ ComposeIdle
  /\ pathSep = "/"
  /\ activeTextEditor \in CopyDocuments
  /\ visibleTextEditors =
       IF activeTextEditor = NoDocument THEN << >> ELSE << activeTextEditor >>
  /\ workspaceState = [r \in Roots |-> NoStored]
  /\ \E tracker \in CopyTrackers :
       /\ workspaceTrackers =
            [r \in Roots |-> IF r = FirstRoot THEN tracker ELSE NoTracker]
       /\ accepted = [r \in Roots |-> IF r = FirstRoot THEN tracker.history ELSE << >>]
  /\ suppressTracking = FALSE
  /\ trackedSelections = NoSelections
  /\ config = CopyConfig
  /\ collection = [pc |-> "idle"]
  /\ activations = << >>
  /\ toggleCalls = << >>
  /\ toggleStart = << >>
  /\ treeEntries = << >>
  /\ tree = [pc |-> "idle"]
  \* vscode.workspace.textDocuments: the documents the host has open
  /\ copies = [calls |-> [b \in Copies |-> [pc |-> "start"]],
               textDocuments |-> {activeTextEditor} \ {NoDocument}]

CopyFrame ==
  UNCHANGED << composeVars, pathSep, workspaceState, trackedSelections, toggleCalls,
               toggleStart, config, visibleTextEditors, collection, treeEntries, tree >>

\* lines 205-224 of build b: up to the await of generateProjectTree
CopyBegin(b) ==
  /\ copies.calls[b].pc = "start"
  /\ workspaceTrackers' = getWorkspaceTracker(workspaceTrackers, workspaceState, FirstRoot)
  /\ copies' = [copies EXCEPT !.calls[b] =
       [pc |-> "tree",
        selections |-> getTrackedSelections(workspaceTrackers'[FirstRoot],
                                            RootPath(FirstRoot), activeTextEditor, pathSep)]]
  /\ CopyFrame
  /\ UNCHANGED << activeTextEditor, suppressTracking, accepted, activations >>

\* lines 231-236 and 371-417 of build b: the tree text is there (it is a
\* local of the build and does not touch the trackers); collectRelevantFiles
\* runs to its first await, setting the flag when it opens a document
CopyTreeScanned(b) ==
  /\ copies.calls[b].pc = "tree"
  /\ LET c == CollectStart(config.sources, config.maxFiles,
                           copies.calls[b].selections.files, activeTextEditor,
                           visibleTextEditors, pathSep)
     IN /\ copies' = [copies EXCEPT !.calls[b] = c]
        /\ suppressTracking' = IF c.pc = "opening" THEN TRUE ELSE suppressTracking
  /\ CopyFrame
  /\ UNCHANGED << activeTextEditor, workspaceTrackers, accepted, activations >>

\* line 136: the host has loaded a document some build is opening and
\* announces it (onDidOpenTextDocument) before the open resolves
DocumentOpened(document) ==
  /\ \E b \in Copies : /\ copies.calls[b].pc = "opening"
                       /\ OpeningDocument(copies.calls[b]) = document
  /\ document \notin copies.textDocuments
  /\ workspaceTrackers' =
       trackDocument(workspaceTrackers, workspaceState, suppressTracking, document, pathSep)
  /\ accepted' = LogAccepted(accepted, suppressTracking, document, pathSep)
  /\ copies' = [copies EXCEPT !.textDocuments = @ \cup {document}]
  /\ CopyFrame
  /\ UNCHANGED << activeTextEditor, suppressTracking, activations >>

\* lines 417-418, 422-426 of build b: openTextDocument resolved with a
\* document the host has open
CopyOpenResolves(b) ==
  /\ copies.calls[b].pc = "opening"
  /\ OpeningDocument(copies.calls[b]) \in copies.textDocuments
  /\ LET c == OpenSettled(copies.calls[b], TRUE, << >>, config.maxFiles, pathSep)
     IN /\ copies' = [copies EXCEPT !.calls[b] = c]
        /\ suppressTracking' = (c.pc = "opening")
  /\ CopyFrame
  /\ UNCHANGED << activeTextEditor, workspaceTrackers, accepted, activations >>

\* lines 419-426 of build b: openTextDocument rejected, the document could
\* not be loaded (builds that wait for the same document share its load, so
\* it is not rejected for one of them only)
CopyOpenRejects(b) ==
  /\ copies.calls[b].pc = "opening"
  /\ OpeningDocument(copies.calls[b]) \notin copies.textDocuments
  /\ \A other \in Copies \ {b} :
       copies.calls[other].pc = "opening"
         => OpeningDocument(copies.calls[other]) # OpeningDocument(copies.calls[b])
  /\ LET c == OpenSettled(copies.calls[b], FALSE, << "E" >>, config.maxFiles, pathSep)
     IN /\ copies' = [copies EXCEPT !.calls[b] = c]
        /\ suppressTracking' = (c.pc = "opening")
  /\ CopyFrame
  /\ UNCHANGED << activeTextEditor, workspaceTrackers, accepted, activations >>

\* lines 447-479 of build b: the content of a document was read, or was not
CopyReadSettles(b) ==
  /\ copies.calls[b].pc = "reading"
  /\ \E read \in BOOLEAN :
       copies' = [copies EXCEPT !.calls[b] =
                    ReadSettled(copies.calls[b], read, << "E" >>, << >>, pathSep)]
  /\ CopyFrame
  /\ UNCHANGED << activeTextEditor, workspaceTrackers, suppressTracking, accepted,
                  activations >>

\* line 137: the user switches to another document while commands run
UserSwitches(document) ==
  /\ Len(activations) < MaxActivations
  /\ document # activeTextEditor
  /\ activeTextEditor' = document
  /\ workspaceTrackers' =
       trackDocument(workspaceTrackers, workspaceState, suppressTracking, document, pathSep)
  /\ accepted' = LogAccepted(accepted, suppressTracking, document, pathSep)
  /\ activations' = Append(activations, [document |-> document,
                                         suppressed |-> suppressTracking])
  /\ copies' = [copies EXCEPT !.textDocuments = @ \cup {document}]
  /\ CopyFrame
  /\ UNCHANGED suppressTracking

\* the host disposes of a document that no editor shows; the extension has
\* no handler for it (lines 135-138 subscribe to open and activation only)
DocumentClosed(document) ==
  /\ document \in copies.textDocuments
  /\ document # activeTextEditor
  /\ \A b \in Copies : copies.calls[b].pc = "opening"
                         => OpeningDocument(copies.calls[b]) # document
  /\ copies' = [copies EXCEPT !.textDocuments = @ \ {document}]
  /\ CopyFrame
  /\ UNCHANGED << activeTextEditor, workspaceTrackers, suppressTracking, accepted,
                  activations >>

NextCopies ==
  \/ \E b \in Copies : CopyBegin(b)
  \/ \E b \in Copies : CopyTreeScanned(b)
  \/ \E document \in SwitchDocuments : DocumentOpened(document)
  \/ \E b \in Copies : CopyOpenResolves(b)
  \/ \E b \in Copies : CopyOpenRejects(b)
  \/ \E b \in Copies : CopyReadSettles(b)
  \/ \E document \in SwitchDocuments : UserSwitches(document)
  \/ \E document \in SwitchDocuments : DocumentClosed(document)

SpecCopies == InitCopies /\ [][NextCopies]_vars

\* ------------------------------------ toggles and document events together
\* what earlier sessions may have stored for the first root: also a pinned
\* file below the directory d, and a pinned directory m that has since been
\* removed from the disk
PinStarts ==
  StoredStarts \cup
    { Serialized(Tracker(<< >>, << <<"d", "/", "p">> >>, << >>)),
      Serialized(Tracker(<< >>, << >>, << [dir |-> <<"m">>, files |-> << >>] >>)) }
\* the documents of the open events that arrive while the toggles run
PinEventDocuments == {DocY, DocOther}

\* the state after activate(), with two invocations of the toggle requested
InitPins ==
  /\ ComposeIdle
  /\ pathSep \in PathSeparators
  /\ activeTextEditor \in {NoDocument, DocX}
  /\ \E stored \in PinStarts :
       workspaceState = [r \in Roots |-> IF r = FirstRoot THEN stored ELSE NoStored]
  /\ suppressTracking = FALSE
  /\ workspaceTrackers =
       trackDocument([r \in Roots |-> NoTracker], workspaceState, suppressTracking,
                     activeTextEditor, pathSep)
  /\ accepted =
       LogAccepted([r \in Roots |-> << >>], suppressTracking, activeTextEditor, pathSep)
  /\ trackedSelections = NoSelections
  /\ toggleCalls \in [Calls -> { NewCall(resource) : resource \in ToggleResources }]
  /\ toggleStart = workspaceState
  /\ config = DefaultConfig
  /\ visibleTextEditors = << >>
  /\ collection = [pc |-> "idle"]
  /\ activations = << >>
  /\ treeEntries = << >>
  /\ tree = [pc |-> "idle"]
  /\ copies = << >>

\* line 136: onDidOpenTextDocument((document) => trackDocument(document))
PinOpenTextDocument(document) ==
  /\ Len(activations) < MaxActivations
  /\ workspaceTrackers' =
       trackDocument(workspaceTrackers, workspaceState, suppressTracking, document, pathSep)
  /\ accepted' = LogAccepted(accepted, suppressTracking, document, pathSep)
  /\ activations' = Append(activations, [document |-> document,
                                         suppressed |-> suppressTracking])
  /\ UNCHANGED << composeVars, pathSep, activeTextEditor, workspaceState,
                  suppressTracking, trackedSelections, toggleCalls, toggleStart, config,
                  visibleTextEditors, collection, treeEntries, tree, copies >>

NextPins ==
  \/ NextToggle
  \/ \E document \in PinEventDocuments : PinOpenTextDocument(document)

SpecPins == InitPins /\ [][NextPins]_vars

\* ------------------------------------- buildContextMarkdown: the document
\* lines 238-290.  Every line of the markdown is one character of the model
\* (a line's own length plays no part in what the code does with it); an
\* empty line is the empty text.  The lines keep what they are made of: the
\* "Files (n)" line is the count n, a section heading is the file's path.
EmptyLine == ""
RECURSIVE JoinLines(_)
\* Array.prototype.join('\n') of a list of lines
JoinLines(lines) ==
  IF lines = << >> THEN << >>
  ELSE LET first == IF Head(lines) = EmptyLine THEN << >> ELSE << Head(lines) >>
       IN IF Len(lines) = 1 THEN first
          ELSE first \o << "\n" >> \o JoinLines(Tail(lines))

\* a relative path as the string it is in the code (label: file.path)
PathString(path) ==
  CASE path = <<"x">> -> "x"
    [] path = <<"y">> -> "y"
    [] path = <<"z">> -> "z"
    [] path = <<"d", "/", "p">> -> "d/p"

\* lines 248-259: header, '', structureHeading, structureText, '',
\* `## Files (${files.length})`, and '', '_No files selected._' without files
BaseLines(files) ==
  << "#", EmptyLine, "S", "T", EmptyLine, ToString(Len(files)) >>
    \o (IF Len(files) = 0 THEN << EmptyLine, "N" >> ELSE << >>)
\* lines 265-266: '', `### ${file.path} (${file.loc} LOC)`, '', codeFence,
\* file.content, '```'
SectionLines(file) ==
  << EmptyLine, PathString(file.path), EmptyLine, "F", "c", "F" >>
\* line 272: '', '## Skipped Files', '', and `- ${entry}` for every entry
SkippedLines(skipped) ==
  << EmptyLine, "K", EmptyLine >> \o [i \in 1..Len(skipped) |-> "-"]

\* mutant: the file sections are pushed without their label
SnapshotSegmentsUnlabelled(files, skipped) ==
  << [text |-> JoinLines(BaseLines(files)), required |-> TRUE, label |-> NoLabel] >>
    \o [i \in 1..Len(files) |->
          [text |-> JoinLines(SectionLines(files[i])), required |-> FALSE,
           label |-> NoLabel]]
    \o (IF Len(skipped) > 0
        THEN << [text |-> JoinLines(SkippedLines(skipped)), required |-> TRUE,
                 label |-> NoLabel] >>
        ELSE << >>)

\* lines 261-274: the segments handed to composeSegments
SnapshotSegments(files, skipped) ==
  << [text |-> JoinLines(BaseLines(files)), required |-> TRUE, label |-> NoLabel] >>
    \o [i \in 1..Len(files) |->
          [text |-> JoinLines(SectionLines(files[i])), required |-> FALSE,
           label |-> PathString(files[i].path)]]
    \o (IF Len(skipped) > 0
        THEN << [text |-> JoinLines(SkippedLines(skipped)), required |-> TRUE,
                 label |-> NoLabel] >>
        ELSE << >>)

\* lines 281-289: the CopyContextResult, once composeSegments has returned
CopyContextResult ==
  [text |-> Text,
   truncated |-> truncated,
   truncatedFiles |-> truncatedFiles,
   includedFiles |-> includedFiles,
   totalFiles |-> Len(collection.files),
   skippedFiles |-> collection.skipped,
   maxChars |-> IF IsFinite(maxChars) THEN Floor(maxChars) ELSE 0]

\* what collectRelevantFiles may return: up to MaxFileLimit files of the
\* root, each read once, and the entries of the candidates it skipped
SnapshotPaths == { <<"x">>, <<"y">>, <<"d", "/", "p">> }
SnapshotFiles ==
  { files \in UNION { [1..n -> [path : SnapshotPaths]] : n \in 0..MaxFileLimit } :
      \A i, j \in 1..Len(files) : i # j => files[i] # files[j] }
SnapshotSkipped == { << >>, << SkipEntry(<<"z">>, << "E" >>) >> }
\* copyContext.maxChars: absent or not finite, or a number up to one more
\* than the length of the whole document
SnapshotLimits(files, skipped) ==
  { [kind |-> k, halves |-> 0] : k \in {"undefined", "NaN", "Infinity"} }
    \cup { Number(h) :
             h \in (-1)..(2 * (Len(Join(AllTexts(SnapshotSegments(files, skipped)))) + 1)) }

\* collectRelevantFiles has returned (line 231-236)
InitSnapshot ==
  /\ HostIdle
  /\ toggleCalls = << >>
  /\ toggleStart = << >>
  /\ config = DefaultConfig
  /\ visibleTextEditors = << >>
  /\ activations = << >>
  /\ treeEntries = << >>
  /\ tree = [pc |-> "idle"]
  /\ copies = << >>
  /\ \E files \in SnapshotFiles, skipped \in SnapshotSkipped :
       /\ collection = [pc |-> "done", files |-> files, skipped |-> skipped]
       /\ maxChars \in SnapshotLimits(files, skipped)
  /\ segments = << >>
  /\ pc = "idle"
  /\ effectiveLimit = NoLimit
  /\ index = 0
  /\ currentLength = 0
  /\ textParts = << >>
  /\ truncated = FALSE
  /\ optionalLimitReached = FALSE
  /\ breakIndex = 0
  /\ includedFiles = << >>
  /\ truncatedFiles = << >>

\* lines 238-279: the segments are built and composeSegments is called
BuildSegments ==
  /\ pc = "idle"
  /\ collection.pc = "done"
  /\ segments' = SnapshotSegments(collection.files, collection.skipped)
  /\ pc' = "entry"
  /\ UNCHANGED << maxChars, effectiveLimit, index, currentLength, textParts, truncated,
                  optionalLimitReached, breakIndex, includedFiles, truncatedFiles,
                  hostVars, auxVars >>

NextSnapshot ==
  \/ BuildSegments
  \/ composeSegments

SpecSnapshot == InitSnapshot /\ [][NextSnapshot]_vars

\* ------------------------------------------------ composeSegments: claims
\* the concatenation of all segment texts in order
FullText == Join(AllTexts(segments))
\* the walk is under way or over, with an effective limit
Limited == pc \in {"loop", "after", "done"} /\ effectiveLimit # NoLimit

C2_RequiredStep ==
  /\ (pc = "loop" /\ index < Len(segments) /\ Segment.required) =>
       LET n == Min(Len(Segment.text), effectiveLimit - Len(Text)) IN
         /\ n >= 0
         /\ Text' = Text \o SubSeq(Segment.text, 1, n)
         /\ IF n = Len(Segment.text)
            THEN pc' = "loop" /\ index' = index + 1 /\ truncated' = truncated
            ELSE truncated' /\ Len(Text') = effectiveLimit /\ pc' = "after"
  /\ (Limited /\ pc # "loop") => Text' = Text

C2_RequiredSlicedNeverSkipped == [][C2_RequiredStep]_vars

C2_Witness ==
  /\ pc = "done" /\ effectiveLimit # NoLimit
  /\ breakIndex + 1 < Len(segments)
  /\ segments[breakIndex + 1].required
  /\ Len(Text) = effectiveLimit
  /\ Len(Join(AllTexts(SubSeq(segments, 1, breakIndex)))) < effectiveLimit
  /\ \E i \in (breakIndex + 2)..Len(segments) : segments[i].text # << >>

\* C3: with a positive (effective) limit an optional segment is all or
\* nothing: the step that handles it appends its whole text (and reports its
\* label as included) when it fits and no earlier optional segment failed to
\* fit; otherwise it appends nothing, reports the label as truncated and
\* latches the limit, so every later optional segment is dropped too, even a
\* short one.  Optional segments after a required overflow are not emitted and
\* are reported as truncated.
C3_OptionalStep ==
  /\ (pc = "loop" /\ index < Len(segments) /\ ~Segment.required) =>
       IF Len(Text) + Len(Segment.text) <= effectiveLimit /\ ~optionalLimitReached
       THEN /\ Text' = Text \o Segment.text
            /\ Segment.label # NoLabel =>
                 includedFiles' = Append(includedFiles, Segment.label)
            /\ truncatedFiles' = truncatedFiles
            /\ ~optionalLimitReached'
       ELSE /\ Text' = Text
            /\ Segment.label # NoLabel =>
                 truncatedFiles' = Append(truncatedFiles, Segment.label)
            /\ includedFiles' = includedFiles
            /\ optionalLimitReached'
            /\ truncated'
  /\ (Limited /\ optionalLimitReached) => optionalLimitReached'
  /\ Limited => IsPrefix(truncatedFiles, truncatedFiles')
  /\ (pc = "after" /\ breakIndex < Len(segments)) =>
       /\ Text' = Text
       /\ \A i \in (breakIndex + 2)..Len(segments) :
            (~segments[i].required /\ segments[i].label # NoLabel)
              => segments[i].label \in Range(truncatedFiles')

C3_OptionalAllOrNothing == [][C3_OptionalStep]_vars

C3_Witness ==
  /\ pc = "done" /\ effectiveLimit # NoLimit /\ optionalLimitReached
  /\ \E i \in 1..Len(segments) :
       /\ ~segments[i].required
       /\ segments[i].text # << >>
       /\ Len(Text) + Len(segments[i].text) <= effectiveLimit
       /\ segments[i].label # NoLabel
       /\ segments[i].label \in Range(truncatedFiles)
       /\ segments[i].label \notin Range(includedFiles)

\* C4: for every limit, includedFiles followed by truncatedFiles is the
\* sequence of labels of the labelled optional segments in segment order, and
\* the included ones are those of a leading part of the list.
C4_LabelsPartitionInOrder ==
  pc = "done" =>
    /\ includedFiles \o truncatedFiles = OptionalLabels(segments)
    /\ \E k \in 0..Len(segments) :
         /\ includedFiles = OptionalLabels(SubSeq(segments, 1, k))
         /\ truncatedFiles = OptionalLabels(SubSeq(segments, k + 1, Len(segments)))

C4_Witness ==
  /\ pc = "done"
  /\ breakIndex < Len(segments)
  /\ includedFiles # << >>
  /\ truncatedFiles # << >>

\* C5 (as stated): whenever truncated is reported, truncatedFiles is not empty.
C5_TruncatedHasLabels ==
  (pc = "done" /\ truncated) => truncatedFiles # << >>

\* C5 (amended): whenever truncated is reported, truncatedFiles is not empty
\* unless every labelled optional segment was included: what was cut is then a
\* required segment (or an optional segment without a label), which the list
\* does not name.
C5_TruncatedHasLabelsUnlessAllIncluded ==
  (pc = "done" /\ truncated) =>
    /\ truncatedFiles # << >> \/ includedFiles = OptionalLabels(segments)
    /\ truncatedFiles = << >> =>
         breakIndex < Len(segments)
           \/ \E i \in 1..Len(segments) :
                ~segments[i].required /\ segments[i].label = NoLabel

C5_Witness ==
  /\ pc = "done" /\ truncated
  /\ truncatedFiles = << >>
  /\ breakIndex < Len(segments)
  /\ includedFiles # << >>

\* C6 (as stated): with a positive limit the emitted text is a prefix of the
\* concatenation of all segment texts.
C6_TextIsPrefixOfAll ==
  (pc = "done" /\ effectiveLimit # NoLimit) => IsPrefix(Text, FullText)

RECURSIVE KeptTexts(_, _, _, _)
\* the texts of all required segments and of the optional segments that are
\* not dropped: an optional segment is dropped when it does not fit after what
\* was kept before it, and so is every optional segment after it
KeptTexts(segs, used, limit, dropping) ==
  IF segs = << >> THEN << >>
  ELSE LET s == Head(segs) IN
       IF s.required
       THEN << s.text >>
              \o KeptTexts(Tail(segs), Min(limit, used + Len(s.text)), limit, dropping)
       ELSE IF ~dropping /\ used + Len(s.text) <= limit
            THEN << s.text >>
                   \o KeptTexts(Tail(segs), used + Len(s.text), limit, dropping)
            ELSE KeptTexts(Tail(segs), used, limit, TRUE)

\* C6 (amended): with a positive limit the emitted text is the largest prefix
\* that fits of the concatenation, in order, of the required segments and the
\* optional segments that were not dropped; a required segment after a
\* dropped optional segment is still emitted.
C6_TextIsLargestPrefixOfKept ==
  (pc = "done" /\ effectiveLimit # NoLimit) =>
    LET kept == Join(KeptTexts(segments, 0, effectiveLimit, FALSE)) IN
      /\ IsPrefix(Text, kept)
      /\ Len(Text) = Min(effectiveLimit, Len(kept))

C6_Witness ==
  /\ pc = "done" /\ effectiveLimit # NoLimit
  /\ ~IsPrefix(Text, FullText)
  /\ truncatedFiles # << >>
  /\ segments[Len(segments)].required

\* C7: truncated is exact: it is set if and only if the emitted text differs
\* from (is shorter than) the concatenation of all segment texts; with an
\* absent, non-positive or non-finite limit the text is the whole
\* concatenation, truncated is false and truncatedFiles is empty.
C7_TruncatedExact ==
  pc = "done" =>
    /\ truncated <=> Text # FullText
    /\ truncated <=> Len(Text) < Len(FullText)
    /\ (~IsFinite(maxChars) \/ maxChars.halves <= 0) =>
         /\ Text = FullText
         /\ ~truncated
         /\ truncatedFiles = << >>
         /\ includedFiles = OptionalLabels(segments)

C7_Witness ==
  /\ pc = "done" /\ effectiveLimit # NoLimit
  /\ ~truncated
  /\ Len(Text) = effectiveLimit
  /\ \E i \in 1..Len(segments) : ~segments[i].required

\* ------------------------------------------------------ tracker: claims
\* C8: after any sequence of document events, the history of each root has at
\* most 10 entries and is the last min(n, 10) of the n relative paths
\* trackDocument accepted for that root, in event order, duplicates kept.
C8_HistoryIsLastTenAccepted ==
  \A r \in Roots :
    LET history == workspaceTrackers[r].history
        n == Len(accepted[r])
    IN /\ Len(history) <= 10
       /\ Len(history) = Min(n, 10)
       /\ history = SubSeq(accepted[r], n - Min(n, 10) + 1, n)

C8_Witness ==
  LET history == workspaceTrackers[FirstRoot].history
      log == accepted[FirstRoot]
  IN /\ Len(log) = 11
     /\ Len(history) = 10
     /\ log[1] # log[2]
     /\ history[1] = log[2]
     /\ history[10] = log[11]
     /\ \E i \in 1..9 : history[i] = history[i + 1]
     /\ workspaceTrackers["r2"].history # << >>

\* the tracker getTrackedSelections read, and what it returned
SelectedTracker == workspaceTrackers[FirstRoot]
NoDuplicates(seq) == \A i, j \in 1..Len(seq) : seq[i] = seq[j] => i = j
\* the active document is a file below the first root's folder
ActiveInsideRoot ==
  /\ activeTextEditor.scheme = "file"
  /\ IsPrefix(RootPath(FirstRoot), activeTextEditor.fsPath)
  /\ Len(activeTextEditor.fsPath) > Len(RootPath(FirstRoot))
\* its path relative to the root, with forward slashes
ActiveRelativePath ==
  JoinPath(SubSeq(activeTextEditor.fsPath, Len(RootPath(FirstRoot)) + 1,
                  Len(activeTextEditor.fsPath)), "/")
Highlighted == Range(trackedSelections.treeHighlights)

\* C9 (as stated): the files list has no duplicates and contains every
\* pinned file, every file captured under a pinned directory and the active
\* document's path when it is a file inside the root, each of them
\* highlighted; with 2 pinned files, the active file one of them and an empty
\* history, the list is exactly those 2 files.
C9_PinsAndActiveIncluded ==
  trackedSelections.called =>
    LET files == trackedSelections.files IN
      /\ NoDuplicates(files)
      /\ \A f \in Range(SelectedTracker.manualFiles) :
           f \in Range(files) /\ f \in Highlighted
      /\ \A i \in 1..Len(SelectedTracker.manualDirectories) :
           \A f \in Range(SelectedTracker.manualDirectories[i].files) :
             f \in Range(files) /\ f \in Highlighted
      /\ ActiveInsideRoot =>
           ActiveRelativePath \in Range(files) /\ ActiveRelativePath \in Highlighted
      /\ ( /\ Len(SelectedTracker.manualFiles) = 2
           /\ SelectedTracker.manualDirectories = << >>
           /\ SelectedTracker.history = << >>
           /\ ActiveInsideRoot
           /\ ActiveRelativePath \in Range(SelectedTracker.manualFiles) )
         => Range(files) = Range(SelectedTracker.manualFiles) /\ Len(files) = 2

\* C9 (supporting): the statement holds whenever the active file's relative
\* path does not itself begin with two dots.
C9_HoldsUnlessNameStartsWithDots ==
  StartsWith(ActiveRelativePath, DotDot) \/ C9_PinsAndActiveIncluded

\* the number of occurrences of a path in the history, and its latest index
Occurrences(path) ==
  Cardinality({ i \in 1..Len(SelectedTracker.history) : SelectedTracker.history[i] = path })
LatestIndex(path) ==
  CHOOSE i \in 1..Len(SelectedTracker.history) :
    /\ SelectedTracker.history[i] = path
    /\ \A j \in 1..Len(SelectedTracker.history) :
         SelectedTracker.history[j] = path => j <= i
\* a ranks before b: more occurrences, or as many and a later latest one
RanksBefore(a, b) ==
  \/ Occurrences(a) > Occurrences(b)
  \/ Occurrences(a) = Occurrences(b) /\ LatestIndex(a) > LatestIndex(b)
NoPins ==
  SelectedTracker.manualFiles = << >> /\ SelectedTracker.manualDirectories = << >>

\* the list is the first 3 entries of: the active path when `hasActive`, then
\* the distinct history paths other than it, by rank
IsRankedList(files, hasActive) ==
  LET lead == IF hasActive THEN 1 ELSE 0
      candidates == Range(SelectedTracker.history)
                      \ (IF hasActive THEN {ActiveRelativePath} ELSE {})
      ranked == SubSeq(files, lead + 1, Len(files))
  IN /\ Len(files) = Min(3, lead + Cardinality(candidates))
     /\ hasActive => files[1] = ActiveRelativePath
     /\ NoDuplicates(files)
     /\ Range(ranked) \subseteq candidates
     /\ \A i, j \in 1..Len(ranked) : i < j => RanksBefore(ranked[i], ranked[j])
     /\ \A c \in candidates \ Range(ranked) :
          \A i \in 1..Len(ranked) : RanksBefore(ranked[i], c)

\* C10 (as stated): with no pins the list is the first 3 entries of: the
\* active path (if the active document is a file inside the root), followed
\* by the distinct history paths other than the active path, most occurrences
\* first, ties broken by the latest occurrence, latest first.
C10_ActiveThenFrequencyRanking ==
  (trackedSelections.called /\ NoPins)
    => IsRankedList(trackedSelections.files, ActiveInsideRoot)

\* C10 (supporting): the ranking holds whenever the active file's relative
\* path does not itself begin with two dots.
C10_RankingUnlessNameStartsWithDots ==
  (trackedSelections.called /\ NoPins /\ ~StartsWith(ActiveRelativePath, DotDot))
    => IsRankedList(trackedSelections.files, ActiveInsideRoot)

\* the example of the claim: history [x, x, y], active z, gives [z, x, y]
C10_ExampleReached ==
  /\ trackedSelections.called /\ NoPins
  /\ SelectedTracker.history = << <<"x">>, <<"x">>, <<"y">> >>
  /\ activeTextEditor = DocZ
  /\ trackedSelections.files = << <<"z">>, <<"x">>, <<"y">> >>

\* the pinned items of the tracker: pinned files and captured directory files
PinnedItems ==
  Range(SelectedTracker.manualFiles)
    \cup UNION { Range(SelectedTracker.manualDirectories[i].files) :
                   i \in 1..Len(SelectedTracker.manualDirectories) }
\* the non-pinned paths the list can draw on: the active path of a file
\* inside the root and the distinct history paths
AvailableDynamic ==
  (Range(SelectedTracker.history)
     \cup (IF ActiveInsideRoot THEN {ActiveRelativePath} ELSE {})) \ PinnedItems
DynamicFiles ==
  { i \in 1..Len(trackedSelections.files) : trackedSelections.files[i] \notin PinnedItems }

\* C11 (as stated): pinned items do not consume the 3 dynamic slots: the list
\* holds all pinned items plus min(3, available) non-pinned items.
C11_PinnedDoNotConsumeSlots ==
  trackedSelections.called =>
    /\ PinnedItems \subseteq Range(trackedSelections.files)
    /\ Cardinality(DynamicFiles) = Min(3, Cardinality(AvailableDynamic))

\* C11 (supporting): what the code does instead: history entries are added
\* only while the whole list, pinned items included, is shorter than 3 (the
\* active path is added whatever the length).
C11_HistoryStopsAtCombinedThree ==
  (trackedSelections.called /\ ~StartsWith(ActiveRelativePath, DotDot)) =>
    LET pinned == Cardinality(PinnedItems)
        active == IF ActiveInsideRoot /\ ActiveRelativePath \notin PinnedItems
                  THEN 1 ELSE 0
        fromHistory == Cardinality(AvailableDynamic) - active
        room == IF pinned + active >= 3 THEN 0 ELSE 3 - pinned - active
    IN Cardinality(DynamicFiles) = active + Min(room, fromHistory)

\* C11 (supporting): the case of the claim is reached: one pin, three other
\* history paths, and only two of them in the list.
C11_PinConsumesSlot ==
  /\ trackedSelections.called
  /\ Cardinality(PinnedItems) = 1
  /\ Cardinality(AvailableDynamic) = 3
  /\ ~ActiveInsideRoot
  /\ Len(trackedSelections.files) = 3

\* getTrackedSelections without the fallback loop of lines 579-588
SelectionsWithoutFallback(tracker, rootPath, activeDocument, sep) ==
  LET activePath == ActivePath(rootPath, activeDocument, sep)
      manual == AddHighlightedFiles(EmptySelection, tracker.manualFiles)
      pinned == AddManualDirectories(manual, tracker.manualDirectories)
      active == AddActive(pinned, activePath)
      frequent == FrequencyPass(active, SortedByFrequency(tracker.history), activePath)
  IN [called |-> TRUE, files |-> frequent.files,
      treeHighlights |-> frequent.treeHighlights]

\* C27: for every tracker and active document the files and the highlights
\* getTrackedSelections returns are those of the function without the
\* newest-first fallback loop.
C27_RecencyFallbackIsRedundant ==
  trackedSelections.called =>
    trackedSelections =
      SelectionsWithoutFallback(workspaceTrackers[FirstRoot], RootPath(FirstRoot),
                                activeTextEditor, pathSep)

\* C27: the fallback loop ran over a history of three events (fewer than 3
\* files after the frequency pass) with a pinned file and an active file.
C27_Witness ==
  /\ trackedSelections.called
  /\ Len(trackedSelections.files) < 3
  /\ Len(workspaceTrackers[FirstRoot].history) >= 3
  /\ workspaceTrackers[FirstRoot].manualFiles # << >>
  /\ ActivePath(RootPath(FirstRoot), activeTextEditor, pathSep)
       \in Range(trackedSelections.files)

\* --------------------------------------------- toggleManualTracking: claims
AllTogglesDone == \A c \in Calls : toggleCalls[c].pc = "done"
\* the module state the invocations started from
StartWorld ==
  [trackers |-> trackDocument([r \in Roots |-> NoTracker], toggleStart, FALSE,
                              activeTextEditor, pathSep),
   state |-> toggleStart]
\* the two invocations one after the other, `first` first
SerialToggles(first, second) ==
  toggleManualTracking(
    toggleManualTracking(StartWorld, toggleCalls[first].resource, activeTextEditor, pathSep),
    toggleCalls[second].resource, activeTextEditor, pathSep)
\* the pins of a root in memory (loaded on first use) and the persisted value
ManualOf(world, root) ==
  LET tracker == getWorkspaceTracker(world.trackers, world.state, root)[root]
  IN [manualFiles |-> tracker.manualFiles,
      manualDirectories |-> tracker.manualDirectories,
      persisted |-> world.state[root]]

\* C12 (as stated): whatever the interleaving of the steps of two
\* invocations, the final manualFiles, manualDirectories and persisted value
\* of every root are those of one of the two serial executions.
C12_TogglesAreSerializable ==
  AllTogglesDone =>
    \/ \A r \in Roots : ManualOf(World, r) = ManualOf(SerialToggles(1, 2), r)
    \/ \A r \in Roots : ManualOf(World, r) = ManualOf(SerialToggles(2, 1), r)

\* C12 (supporting): the example of the claim is reached with the other
\* outcome: two toggles of the same unpinned directory leave it pinned.
C12_DoubleToggleLeavesPinned ==
  /\ AllTogglesDone
  /\ toggleCalls[1].resource = ResourceD /\ toggleCalls[2].resource = ResourceD
  /\ ~toggleStart[FirstRoot].present
  /\ MapHas(workspaceTrackers[FirstRoot].manualDirectories, <<"d">>)

\* C12 (supporting): the statement holds when the two invocations are not
\* both for one directory.
C12_SerializableUnlessSameDirectory ==
  ( /\ toggleCalls[1].targetUri = toggleCalls[2].targetUri
    /\ FileType(toggleCalls[1].targetUri) = "directory" )
  \/ C12_TogglesAreSerializable

\* the tracker a new session builds from the persisted value of a root
Reloaded(root) ==
  getWorkspaceTracker([r \in Roots |-> NoTracker], workspaceState, root)[root]
SomeToggleCompleted == \E c \in Calls : toggleCalls[c].pc = "done"

C13_DirectoryOrderChanged ==
  /\ AllTogglesDone
  /\ Range(Reloaded(FirstRoot).manualDirectories)
       = Range(workspaceTrackers[FirstRoot].manualDirectories)
  /\ Reloaded(FirstRoot).manualDirectories # workspaceTrackers[FirstRoot].manualDirectories

\* ------------------------------------------- buildContextMarkdown: claims
\* the history of a root after `relative` is appended, at most 10 entries kept
HistoryWith(root, relative) ==
  LET pushed == Append(workspaceTrackers[root].history, relative)
  IN IF Len(pushed) > 10 THEN Tail(pushed) ELSE pushed
\* a step in which a file of a workspace folder becomes the active document
BecomesActive ==
  /\ activeTextEditor' # activeTextEditor
  /\ activeTextEditor'.scheme = "file"
  /\ GetWorkspaceFolder(activeTextEditor'.fsPath) # NoFolder
\* that step appends the file's relative path to the history of its root
ActivationRecorded ==
  LET root == GetWorkspaceFolder(activeTextEditor'.fsPath)
      relative == JoinPath(SubSeq(activeTextEditor'.fsPath, Len(RootPath(root)) + 1,
                                  Len(activeTextEditor'.fsPath)), "/")
  IN workspaceTrackers'[root].history = HistoryWith(root, relative)

\* C14 (as stated): every time a workspace file becomes the active document
\* its relative path is appended to history, also while a snapshot build is
\* awaiting its own openTextDocument call.
C14_EveryActivationIsRecorded == [][BecomesActive => ActivationRecorded]_vars

\* C14 (supporting): the activation is recorded whenever the build is not
\* awaiting an openTextDocument call of its own.
C14_RecordedUnlessSuppressed ==
  [][(BecomesActive /\ ~suppressTracking) => ActivationRecorded]_vars

\* C14 (supporting): a user activation of a workspace file that happened
\* while the flag was set and is not in the history.
C14_ActivationLost ==
  /\ collection.pc = "done"
  /\ \E i \in 1..Len(activations) :
       /\ activations[i].suppressed
       /\ activations[i].document = DocW
  /\ <<"w">> \notin Range(workspaceTrackers[FirstRoot].history)

Collecting == collection.pc \in {"opening", "reading", "done"}
\* the paths whose content the read loop read or tried to read, in order
ReadPaths ==
  LET reads == SelectSeq(collection.outcomes, LAMBDA o : o.step = "read")
  IN [i \in 1..Len(reads) |-> reads[i].path]
FilePaths == [i \in 1..Len(collection.files) |-> collection.files[i].path]

\* C15 (as stated): with the smart strategy and a finite maxFiles = m > 0 the
\* files whose content is read are the first m entries of the list returned
\* by getTrackedSelections.
C15_CapKeepsRankedOrder ==
  ( /\ collection.pc = "done"
    /\ config.sources = "smart"
    /\ IsFinite(config.maxFiles) /\ Floor(config.maxFiles) >= 1 )
  => ReadPaths = Slice(trackedSelections.files, Floor(config.maxFiles))

\* C15 (supporting): a pinned file displaced by the active file: pin x,
\* active file z, maxFiles = 1, and z is the one file read.
C15_PinDisplacedByActive ==
  /\ collection.pc = "done"
  /\ config.sources = "smart"
  /\ config.maxFiles = Number(2)
  /\ activations = << >>
  /\ trackedSelections.files = << <<"x">>, <<"z">> >>
  /\ ReadPaths = << <<"z">> >>

\* C16: the number of files collected never exceeds floor(maxFiles) when
\* maxFiles is finite, is zero when maxFiles is 0 or negative (or floors to
\* 0), and with a non-finite maxFiles every document of the strategy that
\* the read loop accepts is read, for every strategy.
C16_FileCountWithinMaxFiles ==
  Collecting =>
    /\ IsFinite(config.maxFiles) /\ Floor(config.maxFiles) >= 1
         => Len(collection.files) <= Floor(config.maxFiles)
    /\ IsFinite(config.maxFiles) /\ Floor(config.maxFiles) <= 0
         => collection.files = << >>
    /\ ~IsFinite(config.maxFiles) /\ collection.pc = "done"
         => \A i \in 1..Len(collection.documents) :
              ReadablePath(collection.documents[i], pathSep) # << >>
                => ReadablePath(collection.documents[i], pathSep) \in Range(ReadPaths)

C16_Witness ==
  /\ collection.pc = "done"
  /\ config.maxFiles = Number(3)
  /\ Len(collection.documents) >= 3
  /\ \A i \in 1..Len(collection.documents) :
       ReadablePath(collection.documents[i], pathSep) # << >>
  /\ Len(collection.files) = 1

Failed(o) == ~o.ok
ReadOk(o) == o.step = "read" /\ o.ok
\* the skipped entries that name a path: "path: reason"
SkippedFor(path) ==
  { i \in 1..Len(collection.skipped) :
      IsPrefix(path \o << ":", " " >>, collection.skipped[i]) }

\* C17: whatever opens and reads succeed or fail, each failed candidate has
\* exactly one "path: reason" entry in skipped, each candidate that was read
\* has exactly one file, no path is both in files and in skipped, and the
\* build goes on to the next candidate.
C17_FailuresAttributedOneByOne ==
  Collecting =>
    LET failed == SelectSeq(collection.outcomes, Failed)
        read == SelectSeq(collection.outcomes, ReadOk)
        failedPaths == { failed[i].path : i \in 1..Len(failed) }
        readPaths == { read[i].path : i \in 1..Len(read) }
    IN /\ Len(collection.skipped) = Len(failed)
       /\ Cardinality(failedPaths) = Len(failed)
       /\ \A path \in failedPaths : Cardinality(SkippedFor(path)) = 1
       /\ Len(collection.files) = Len(read)
       /\ \A path \in readPaths :
            Cardinality({ j \in 1..Len(FilePaths) : FilePaths[j] = path }) = 1
       /\ Range(FilePaths) = readPaths
       /\ failedPaths \cap readPaths = {}
       /\ \A path \in readPaths : SkippedFor(path) = {}

C17_Witness ==
  /\ collection.pc = "done"
  /\ Len(collection.outcomes) = 4
  /\ \E i, j, k \in 1..4 :
       /\ collection.outcomes[i].step = "open" /\ ~collection.outcomes[i].ok
       /\ collection.outcomes[j].step = "read" /\ ~collection.outcomes[j].ok
       /\ collection.outcomes[k].step = "read" /\ collection.outcomes[k].ok
  /\ \E e \in Range(collection.skipped) : e[Len(e)] = "F"
  /\ Len(collection.skipped) = 2
  /\ Len(collection.files) >= 1

\* C18 (as stated): no file whose path is matched by the ignore rules has
\* its content included.
C18_IgnoredFilesNotCollected ==
  Collecting =>
    \A j \in 1..Len(FilePaths) : ~Ignores(config.ignores, FilePaths[j])

\* C18 (supporting): the ignore rules do act on the tree scan: no ignored
\* path is among the tree entries.
C18_IgnoredPathsNotInTree ==
  \A i \in 1..Len(treeEntries) : ~Ignores(config.ignores, treeEntries[i].path)

\* C18 (supporting): an ignored file that is not among the tree entries and
\* whose content is collected.
C18_IgnoredFileCollected ==
  /\ collection.pc = "done"
  /\ config.ignores = { <<"x">> }
  /\ <<"x">> \in Range(FilePaths)
  /\ \A i \in 1..Len(treeEntries) : treeEntries[i].path # <<"x">>

\* the document that was active when the build called getTrackedSelections
\* (line 221): the user's activations all come after that call
SelectedFor == IF activations = << >> THEN activeTextEditor ELSE activations[1].before
CollectStarted == collection.pc \in {"opening", "reading", "done"}

\* C26: within one build the active document collectRelevantFiles reads
\* (line 382) is the document getTrackedSelections ranked and highlighted
\* (line 221), also when the active editor changes during the tree scan.
C26_OneActiveDocumentPerBuild ==
  CollectStarted => collection.activeEditor = SelectedFor

\* C26 (supporting): what holds instead: the two differ only when the user
\* activated a document before collectRelevantFiles was called, and then
\* collectRelevantFiles has the newly active one.
C26_SameUnlessActivatedDuringScan ==
  CollectStarted =>
    \/ collection.activeEditor = SelectedFor
    \/ /\ activations # << >>
       /\ collection.activeEditor = activations[1].document

\* C26 (supporting): a finished build whose files include w, activated during
\* the tree scan, while the selections and the tree highlights were computed
\* for another active document and do not have w.
C26_BuildMixesActiveDocuments ==
  /\ collection.pc = "done"
  /\ collection.activeEditor = DocW
  /\ SelectedFor # DocW
  /\ \E i \in 1..Len(collection.files) : collection.files[i].path = <<"w">>
  /\ <<"w">> \notin Range(trackedSelections.files)
  /\ <<"w">> \notin Range(trackedSelections.treeHighlights)

\* ------------------------------------------------------- buildTree: claims
TreeNodes == IF tree.pc = "idle" THEN << >> ELSE tree.nodes
HasChildren(node) == Children(TreeNodes, node.path) # << >>
\* the entries inserted so far
InsertedEntries == { treeEntries[i] : i \in 1..(tree.at - 1) }

\* C19 (as stated): after any list of entries was inserted, in any order,
\* every node that has at least one child has isDir = true.
C19_ParentsAreDirectories ==
  tree.pc # "idle" =>
    \A i \in 1..Len(TreeNodes) : HasChildren(TreeNodes[i]) => TreeNodes[i].isDir

\* C19 (supporting): a node with a child is file-typed only when an entry
\* gave its path as a file before any entry below it, and no entry gave it
\* as a directory.
C19_UnpromotedOnlyAfterFileEntry ==
  tree.pc # "idle" =>
    \A i \in 1..Len(TreeNodes) :
      (HasChildren(TreeNodes[i]) /\ ~TreeNodes[i].isDir)
        => /\ TreeEntry(TreeNodes[i].path, FALSE) \in InsertedEntries
           /\ TreeEntry(TreeNodes[i].path, TRUE) \notin InsertedEntries

\* C19 (supporting): "a" as a file, then "a/c": the node a keeps isDir = false.
C19_FileNodeWithChild ==
  /\ tree.pc = "done"
  /\ treeEntries = << TreeEntry(<<"a">>, FALSE), TreeEntry(<<"a", "/", "c">>, FALSE) >>
  /\ \E i \in 1..Len(TreeNodes) :
       TreeNodes[i].path = <<"a">> /\ ~TreeNodes[i].isDir /\ HasChildren(TreeNodes[i])

Sorted == tree.pc \in {"render", "done"}
\* the paths that have children: the root and the nodes
ParentPaths == {RootNodePath} \cup { TreeNodes[i].path : i \in 1..Len(TreeNodes) }
\* a node is a directory when an entry gives it as one or an entry lies below it
IsDirectoryNode(node) == node.isDir \/ HasChildren(node)
\* case-sensitive lexicographic order of two names
NameBefore(a, b) == LexLess(CodeUnits(a), CodeUnits(b))

\* C20 (as stated): at every sibling level all directories come before all
\* files, and within each group the names are in ascending (case-sensitive)
\* lexicographic order.
C20_DirectoriesFirstThenByName ==
  Sorted =>
    \A parent \in ParentPaths :
      LET siblings == Children(TreeNodes, parent) IN
        \A i, j \in 1..Len(siblings) :
          i < j =>
            /\ IsDirectoryNode(siblings[i]) \/ ~IsDirectoryNode(siblings[j])
            /\ IsDirectoryNode(siblings[i]) = IsDirectoryNode(siblings[j])
                 => NameBefore(siblings[i].name, siblings[j].name)

\* C20 (supporting): what sortTree gives: nodes flagged isDir first, and
\* within each group the order of localeCompare.
C20_FlaggedFirstThenLocaleOrder ==
  Sorted =>
    \A parent \in ParentPaths :
      LET siblings == Children(TreeNodes, parent) IN
        \A i, j \in 1..Len(siblings) :
          i < j =>
            /\ siblings[i].isDir \/ ~siblings[j].isDir
            /\ siblings[i].isDir = siblings[j].isDir
                 => LocaleBefore(siblings[i].name, siblings[j].name)

\* C20 (supporting): the files B and a are listed a, then B.
C20_LowerCaseBeforeUpperCase ==
  /\ tree.pc = "done"
  /\ treeEntries = << TreeEntry(<<"B">>, FALSE), TreeEntry(<<"a">>, FALSE) >>
  /\ Len(tree.lines) = 3
  /\ tree.lines[2].name = <<"a">>
  /\ tree.lines[3].name = <<"B">>

\* C20 (supporting): the order depends on the order of the entries: "a" as a
\* file, then "a/B", and the directory c are listed c, a (a is a file-typed
\* node); with "a/B" before "a" the same entries are listed a, c.
C20_OrderDependsOnEntryOrder ==
  /\ tree.pc = "done" /\ tree.structureMode = "full"
  /\ treeEntries = << TreeEntry(<<"a">>, FALSE), TreeEntry(<<"a", "/", "B">>, FALSE),
                      TreeEntry(<<"c">>, TRUE) >>
  /\ tree.lines[2].name = <<"c">>
  /\ buildTree(<< treeEntries[2], treeEntries[1], treeEntries[3] >>, RootName, "full", {})[2].name
       = <<"a">>


\* the lines of the finished tree below the root label
Rendered == tree.pc = "done"
\* the depth of the node of a line: the number of pieces of its prefix
LineDepth(i) == Len(tree.lines[i].prefix)
RECURSIVE LinePath(_)
\* the path of the node a line lists: its name below the path of the nearest
\* line above it that is one level up
LinePath(i) ==
  IF LineDepth(i) = 0 THEN tree.lines[i].name
  ELSE LET above == { j \in 2..(i - 1) : LineDepth(j) = LineDepth(i) - 1 }
           parent == CHOOSE j \in above : \A k \in above : k <= j
       IN ChildPath(LinePath(parent), tree.lines[i].name)
ListedPaths == { LinePath(i) : i \in 2..Len(tree.lines) }
\* the paths of the ancestors of a node below the root
AncestorPaths(path) ==
  { JoinPath(SubSeq(Split(path), 1, k), "/") : k \in 1..(Len(Split(path)) - 1) }
NodeAt(path) == CHOOSE node \in Range(TreeNodes) : node.path = path
\* the lists of highlighted paths getTrackedSelections may hand over
HighlightPaths ==
  { <<"a">>, <<"B">>, <<"c">>, <<"a", "/", "c">>, <<"a", "/", "B">>,
    <<"a", "/", "B", "/", "c">> }
HighlightLists == UNION { [1..n -> HighlightPaths] : n \in 0..2 }
\* every highlighted path that is the path of an entry is listed, for the
\* highlight lists that give the expandPaths of this tree (lines 351-365)
HighlightsListed ==
  \A highlightPaths \in HighlightLists :
    ExpandPaths("smart", highlightPaths) = tree.expandPaths =>
      \A i \in 1..Len(highlightPaths) :
        (\E e \in 1..Len(treeEntries) : treeEntries[e].path = highlightPaths[i])
          => highlightPaths[i] \in ListedPaths
\* the root label is the first line and each node is listed at most once
LinesWellFormed ==
  /\ tree.lines[1].name = RootName
  /\ \A i, j \in 2..Len(tree.lines) : i # j => LinePath(i) # LinePath(j)
  /\ ListedPaths \subseteq { TreeNodes[i].path : i \in 1..Len(TreeNodes) }

\* C23: in smart mode a node is listed if and only if all its ancestors
\* below the root are directories whose paths are in expandPaths (a top-level
\* node has none); so every highlighted path that occurs in the entry list is
\* listed, with no highlights the root label and the top-level nodes are
\* listed, and in full mode every node is listed.
C23_ListedIffAncestorsExpanded ==
  Rendered =>
    /\ LinesWellFormed
    /\ tree.structureMode = "smart" =>
         /\ \A i \in 1..Len(TreeNodes) :
              TreeNodes[i].path \in ListedPaths
                <=> \A q \in AncestorPaths(TreeNodes[i].path) :
                      IsDirectoryNode(NodeAt(q)) /\ q \in tree.expandPaths
         /\ HighlightsListed
         /\ tree.expandPaths = {} =>
              ListedPaths = { TreeNodes[i].path : i \in 1..Len(TreeNodes) } \cap
                            { TreeNodes[i].name : i \in 1..Len(TreeNodes) }
    /\ tree.structureMode = "full" =>
         ListedPaths = { TreeNodes[i].path : i \in 1..Len(TreeNodes) }

\* C23 (supporting): what holds instead: the same with "directory" read as
\* the isDir flag of the node, and the highlighted paths listed unless one of
\* their ancestors is a node that kept isDir = false.
C23_ListedIffAncestorsFlaggedAndExpanded ==
  Rendered =>
    /\ LinesWellFormed
    /\ tree.structureMode = "smart" =>
         /\ \A i \in 1..Len(TreeNodes) :
              TreeNodes[i].path \in ListedPaths
                <=> \A q \in AncestorPaths(TreeNodes[i].path) :
                      NodeAt(q).isDir /\ q \in tree.expandPaths
         /\ (\A i \in 1..Len(TreeNodes) : HasChildren(TreeNodes[i]) => TreeNodes[i].isDir)
              => HighlightsListed
         /\ tree.expandPaths = {} =>
              ListedPaths = { TreeNodes[i].path : i \in 1..Len(TreeNodes) } \cap
                            { TreeNodes[i].name : i \in 1..Len(TreeNodes) }
    /\ tree.structureMode = "full" =>
         ListedPaths = { TreeNodes[i].path : i \in 1..Len(TreeNodes) }

\* C23 (supporting): "a" as a file, then "a/c", with a/c highlighted
\* (expandPaths = {a}) in smart mode: a/c is not listed.
C23_HighlightedEntryNotListed ==
  /\ Rendered
  /\ tree.structureMode = "smart"
  /\ treeEntries = << TreeEntry(<<"a">>, FALSE), TreeEntry(<<"a", "/", "c">>, FALSE) >>
  /\ tree.expandPaths = ExpandPaths("smart", << <<"a", "/", "c">> >>)
  /\ <<"a", "/", "c">> \notin ListedPaths

\* insertPath(root, entry.path.split('/'), entry.isDir) on a tree
InsertInto(nodes, entry) == insertPath(nodes, RootNodePath, Split(entry.path), entry.isDir)
\* the nodes with the isDir flag of the node at `path` set
Promoted(nodes, path) ==
  [i \in 1..Len(nodes) |->
     IF nodes[i].path = path THEN [nodes[i] EXCEPT !.isDir = TRUE] ELSE nodes[i]]

\* C24: after any sequence of insertPath calls the names of the children of a
\* parent are unique; an entry inserted a second time leaves the tree as it
\* is; a path inserted as a directory where a file-typed node exists changes
\* that node's isDir to true and nothing else, its children included; "a/b/c"
\* then "a/b" as a directory gives one a, one directory a/b and its child c.
C24_InsertPathIdempotentAndPromoting ==
  tree.pc # "idle" =>
    /\ \A i, j \in 1..Len(TreeNodes) : i # j => TreeNodes[i].path # TreeNodes[j].path
    /\ \A entry \in InsertedEntries : InsertInto(TreeNodes, entry) = TreeNodes
    /\ \A entry \in TreeEntries :
         InsertInto(InsertInto(TreeNodes, entry), entry) = InsertInto(TreeNodes, entry)
    /\ \A i \in 1..Len(TreeNodes) :
         ~TreeNodes[i].isDir =>
           /\ InsertInto(TreeNodes, TreeEntry(TreeNodes[i].path, TRUE))
                = Promoted(TreeNodes, TreeNodes[i].path)
           /\ Children(InsertInto(TreeNodes, TreeEntry(TreeNodes[i].path, TRUE)),
                       TreeNodes[i].path)
                = Children(TreeNodes, TreeNodes[i].path)
    /\ InsertAll(<< >>, << TreeEntry(<<"a", "/", "b", "/", "c">>, FALSE),
                           TreeEntry(<<"a", "/", "b">>, TRUE) >>)
         = << [name |-> <<"a">>, path |-> <<"a">>, isDir |-> TRUE],
              [name |-> <<"b">>, path |-> <<"a", "/", "b">>, isDir |-> TRUE],
              [name |-> <<"c">>, path |-> <<"a", "/", "b", "/", "c">>, isDir |-> FALSE] >>

\* C24: "a" as a file, "a/c" below it, "a" again as a file and then as a
\* directory have been inserted: one node a, now a directory, with its child c.
C24_Witness ==
  /\ tree.pc = "insert"
  /\ tree.at = 4
  /\ treeEntries = << TreeEntry(<<"a">>, FALSE), TreeEntry(<<"a", "/", "c">>, FALSE),
                      TreeEntry(<<"a">>, TRUE) >>
  /\ TreeNodes = << [name |-> <<"a">>, path |-> <<"a">>, isDir |-> TRUE],
                    [name |-> <<"c">>, path |-> <<"a", "/", "c">>, isDir |-> FALSE] >>

\* ------------------------------------------------ two copy commands: claims
\* C21: the open event of a document that a snapshot build opens (line 417)
\* never appends to a history, in every interleaving of two copy commands
C21_BuildOpensNotRecorded ==
  [][(\E document \in SwitchDocuments : DocumentOpened(document))
       => workspaceTrackers' = workspaceTrackers]_vars

\* C21: what holds instead: the open event of a build is dropped while the
\* shared flag is set, whichever build set it
C21_NotRecordedWhileFlagSet ==
  [][((\E document \in SwitchDocuments : DocumentOpened(document)) /\ suppressTracking)
       => workspaceTrackers' = workspaceTrackers]_vars

\* C21: one build's open is pending and not yet announced while the flag is
\* down, after the other build's finally block reset it
C21_OpenPendingFlagReset ==
  /\ ~suppressTracking
  /\ \E b \in Copies :
       /\ copies.calls[b].pc = "opening"
       /\ OpeningDocument(copies.calls[b]) \notin copies.textDocuments


\* ------------------------------------- toggles and document events: claims
\* the tracking state of a root as its next user sees it: the tracker in
\* memory, or the one getWorkspaceTracker would load
TrackingOf(trackers, state, root) == getWorkspaceTracker(trackers, state, root)[root]
\* the step is a document event / a step of invocation c
IsDocumentEvent == activations' # activations
IsToggleStep(c) == toggleCalls'[c] # toggleCalls[c]
\* the step of invocation c leaves the tracking state and the persisted value
\* of every root but `root` as they are
OtherRootsUnchanged(root) ==
  \A r \in Roots \ {root} :
    /\ TrackingOf(workspaceTrackers', workspaceState', r)
         = TrackingOf(workspaceTrackers, workspaceState, r)
    /\ workspaceState'[r] = workspaceState[r]
\* a document event changes histories only
DocumentEventFrame ==
  IsDocumentEvent =>
    /\ workspaceState' = workspaceState
    /\ \A r \in Roots :
         LET before == TrackingOf(workspaceTrackers, workspaceState, r)
             after == TrackingOf(workspaceTrackers', workspaceState', r)
         IN /\ after.manualFiles = before.manualFiles
            /\ after.manualDirectories = before.manualDirectories
    /\ \E r \in Roots : OtherRootsUnchanged(r)
\* a step of a toggle of a file changes manualFiles only; a step of a toggle
\* of a directory changes the entry of that directory only; `asDirectory`
\* says which of the two the invocation is
ToggleFrameOf(c, asDirectory) ==
  LET call == toggleCalls[c]
      root == toggleCalls'[c].root
  IN IF root = NoFolder THEN OtherRootsUnchanged(NoFolder)
     ELSE LET before == TrackingOf(workspaceTrackers, workspaceState, root)
              after == TrackingOf(workspaceTrackers', workspaceState', root)
          IN /\ OtherRootsUnchanged(root)
             /\ after.history = before.history
             /\ IF asDirectory
                THEN /\ after.manualFiles = before.manualFiles
                     /\ MapDelete(after.manualDirectories, toggleCalls'[c].relative)
                          = MapDelete(before.manualDirectories, toggleCalls'[c].relative)
                ELSE after.manualDirectories = before.manualDirectories
\* the toggle pins and then unpins the directories on disk that are not
\* pinned: they are absent afterwards and manualFiles is as before
PinThenUnpin ==
  \A resource \in {ResourceD, ResourceOne} :
    LET relative == toPosix(PathRelative(RootPath(FirstRoot), resource, pathSep))
        before == TrackingOf(workspaceTrackers, workspaceState, FirstRoot)
        pinned == toggleManualTracking(World, resource, activeTextEditor, pathSep)
        unpinned == toggleManualTracking(pinned, resource, activeTextEditor, pathSep)
    IN ~MapHas(before.manualDirectories, relative) =>
         /\ MapHas(pinned.trackers[FirstRoot].manualDirectories, relative)
         /\ pinned.trackers[FirstRoot].manualFiles = before.manualFiles
         /\ ~MapHas(unpinned.trackers[FirstRoot].manualDirectories, relative)
         /\ unpinned.trackers[FirstRoot].manualFiles = before.manualFiles
\* the path of invocation c is a directory for the user: a directory on disk
\* or a pinned directory
TogglesDirectory(c) ==
  LET call == toggleCalls'[c] IN
  \/ FileType(call.targetUri) = "directory"
  \/ /\ call.root # NoFolder
     /\ MapHas(TrackingOf(workspaceTrackers, workspaceState, call.root).manualDirectories,
               call.relative)

\* C22: every trigger changes its own part of the tracking state only: a
\* document event the histories; a toggle of a file manualFiles of its root; a
\* toggle of a directory (on disk, or pinned) the entry of that directory in
\* manualDirectories of its root; pinning and then unpinning a directory
\* leaves it absent and manualFiles as before; other roots are not touched.
C22_TriggersChangeOwnPartOnly ==
  /\ [][/\ DocumentEventFrame
        /\ \A c \in Calls : IsToggleStep(c) => ToggleFrameOf(c, TogglesDirectory(c))]_vars
  /\ []PinThenUnpin

\* C22 (supporting): what holds instead: the same, a toggle being one of a
\* directory when stat reports a directory, and one of a file otherwise
\* (also when the path is a pinned directory that stat does not find).
C22_OwnPartOnlyByStatResult ==
  /\ [][/\ DocumentEventFrame
        /\ \A c \in Calls :
             IsToggleStep(c) =>
               ToggleFrameOf(c, FileType(toggleCalls'[c].targetUri) = "directory")]_vars
  /\ []PinThenUnpin

\* C22 (supporting): the toggle of the pinned directory m, which is not on
\* disk any more, has completed and m is now among the pinned files.
C22_DirectoryToggleChangedFiles ==
  /\ \E c \in Calls : /\ toggleCalls[c].pc = "done"
                      /\ toggleCalls[c].resource = ResourceMissing
  /\ MapHas(workspaceTrackers[FirstRoot].manualDirectories, <<"m">>)
  /\ <<"m">> \in Range(workspaceTrackers[FirstRoot].manualFiles)

\* the module state after one more toggle of `resource`, run to its end
AfterToggle(resource) ==
  toggleManualTracking(World, resource, activeTextEditor, pathSep)
\* the resources of the first root that are pinned directories now
PinnedDirectoryResources ==
  { resource \in ToggleResources \ {NoResource} :
      /\ GetWorkspaceFolder(resource) = FirstRoot
      /\ MapHas(TrackingOf(workspaceTrackers, workspaceState, FirstRoot).manualDirectories,
                toPosix(PathRelative(RootPath(FirstRoot), resource, pathSep))) }
NoPathPinnedTwice ==
  \A r \in Roots :
    \A i \in 1..Len(workspaceTrackers[r].manualDirectories) :
      workspaceTrackers[r].manualDirectories[i].dir
        \notin Range(workspaceTrackers[r].manualFiles)

\* C25: a completed toggle of a path that is a key of manualDirectories
\* removes the key and leaves manualFiles as it is, whatever stat answers; no
\* path is both a pinned file and a pinned directory.
C25_PinnedDirectoryIsUnpinned ==
  /\ \A resource \in PinnedDirectoryResources :
       LET relative == toPosix(PathRelative(RootPath(FirstRoot), resource, pathSep))
           before == TrackingOf(workspaceTrackers, workspaceState, FirstRoot)
           after == AfterToggle(resource).trackers[FirstRoot]
       IN /\ ~MapHas(after.manualDirectories, relative)
          /\ after.manualFiles = before.manualFiles
  /\ NoPathPinnedTwice

\* C25 (supporting): what holds instead: the same for the pinned directories
\* that stat still reports as directories; and a path is pinned twice only
\* when stat does not report it as a directory.
C25_UnpinnedWhenStatFindsDirectory ==
  /\ \A resource \in PinnedDirectoryResources :
       LET relative == toPosix(PathRelative(RootPath(FirstRoot), resource, pathSep))
           before == TrackingOf(workspaceTrackers, workspaceState, FirstRoot)
           after == AfterToggle(resource).trackers[FirstRoot]
       IN FileType(resource) = "directory" =>
            /\ ~MapHas(after.manualDirectories, relative)
            /\ after.manualFiles = before.manualFiles
  /\ \A r \in Roots :
       \A i \in 1..Len(workspaceTrackers[r].manualDirectories) :
         workspaceTrackers[r].manualDirectories[i].dir
             \in Range(workspaceTrackers[r].manualFiles)
           => FileType(RootPath(r) \o << workspaceTrackers[r].manualDirectories[i].dir >>)
                # "directory"

\* C25 (supporting): the pinned directory m, which stat does not find, is a
\* key of manualDirectories and an entry of manualFiles after its toggle.
C25_PinnedDirectoryAlsoFile ==
  /\ toggleStart[FirstRoot].present
  /\ MapHas(loadManualTracking(toggleStart[FirstRoot]).directories, <<"m">>)
  /\ \A c \in Calls : toggleCalls[c].pc = "done"
  /\ \E c \in Calls : toggleCalls[c].resource = ResourceMissing
  /\ ~NoPathPinnedTwice


\* ------------------------------------------------ the document: claims
\* the snapshot has been returned
Returned == pc = "done" /\ collection.pc = "done"
\* the labels of the files that were read, in order
ReadLabels == [i \in 1..Len(collection.files) |-> PathString(collection.files[i].path)]

\* C28: for every returned snapshot the count in the "Files (n)" line and
\* totalFiles are the number of files read, and totalFiles is
\* includedFiles.length + truncatedFiles.length: every file read is reported
\* once, as included or as truncated, wherever the limit falls.
C28_EveryReadFileIsReported ==
  Returned =>
    /\ BaseLines(collection.files)[6] = ToString(Len(collection.files))
    /\ segments[1].text = JoinLines(BaseLines(collection.files))
    /\ CopyContextResult.totalFiles = Len(collection.files)
    /\ CopyContextResult.totalFiles
         = Len(CopyContextResult.includedFiles) + Len(CopyContextResult.truncatedFiles)
    /\ CopyContextResult.includedFiles \o CopyContextResult.truncatedFiles = ReadLabels

\* C28: the limit fell inside the header, with two files read and a skipped
\* report: both files are reported as truncated.
C28_Witness ==
  /\ Returned
  /\ Len(collection.files) = 2
  /\ collection.skipped # << >>
  /\ breakIndex = 0
  /\ truncated
  /\ Len(Text) < Len(segments[1].text)
  /\ truncatedFiles = ReadLabels

\* C28 (supporting): the limit fell inside a file section: the first file is
\* included, the second truncated, the skipped report is there in full.
C28_LimitInFileSection ==
  /\ Returned
  /\ Len(includedFiles) = 1
  /\ Len(truncatedFiles) = 1
  /\ collection.skipped # << >>
  /\ breakIndex = Len(segments)

\* C28 (supporting): the limit fell inside the skipped-files report, after
\* every file section.
C28_LimitInSkippedReport ==
  /\ Returned
  /\ Len(includedFiles) = 2
  /\ truncated
  /\ breakIndex = Len(segments) - 1
  /\ segments[Len(segments)].required

====
